---------------------------- MODULE Spec2Model ----------------------------
(***************************************************************************)
(* A model of the simulation core of Particle Tycoon: Wall, Planet and     *)
(* DwarfPlanet, Particle and the population managers, in the two           *)
(* revisions the repository holds: the modular one (src/entities,          *)
(* src/core: variant "entities") and the single-file one                   *)
(* (src/particle_tycoon.py: variant "tycoon").                             *)
(*                                                                         *)
(* Numbers.  The program computes in float64.  The model computes in       *)
(* integers: lengths and velocities in 1/Scale world units, times in       *)
(* milliseconds, air resistance in 1/AirScale.  A product or quotient is   *)
(* truncated toward zero, which keeps the sign symmetry of the float       *)
(* operations; a comparison within a model unit of its threshold can come  *)
(* out differently than in float64.  Purely visual state (colour, depth z, *)
(* trail, glow, the coordinates of explosion fragments, sounds) is left    *)
(* out; every field that decides motion, lifecycle, collection or cost is  *)
(* kept.                                                                   *)
(***************************************************************************)
EXTENDS Integers, Sequences, FiniteSets, TLC

VARIABLES
    variant,   \* which revision of the classes runs: "entities" or "tycoon"
    planets,   \* Game.planets: sequence of Planet / DwarfPlanet records
    walls,     \* Game.walls: sequence of Wall records
    part,      \* the Particle whose update() calls are followed
    mgr,       \* a population manager: kind, spawn_rate, spawn_timer, particles
    op,        \* the call made last: its name, the object before it, its report
    hist,      \* history: update time a particle has spent fading so far
    calls,     \* number of calls made so far (bounds a run)
    game       \* the Game: money, costs, emitter, spawners, placement mode

vars == <<variant, planets, walls, part, mgr, op, hist, calls, game>>

---------------------------------------------------------------------------
\* Units and arithmetic

Scale == 10 * 10          \* model units per world unit (lengths, velocities, mass)
AirScale == 100 * 100     \* model units per unit of air_resistance_intensity
MsPerSec == 10 * 100      \* model time units per second

Abs(a) == IF a < 0 THEN -a ELSE a

Sign(a) == IF a < 0 THEN -1 ELSE IF a > 0 THEN 1 ELSE 0

\* a / b truncated toward zero (b > 0)
Div(a, b) == IF a >= 0 THEN a \div b ELSE -((-a) \div b)

Min(a, b) == IF a <= b THEN a ELSE b

Max(a, b) == IF a >= b THEN a ELSE b

\* python int(c * f) for a positive cost c and a factor f = tenths / 10
IntTimes(c, tenths) == (c * tenths) \div 10

RECURSIVE SqrtIter(_, _)
SqrtIter(n, g) ==
    LET h == (g + n \div g) \div 2
    IN  IF h >= g THEN g ELSE SqrtIter(n, h)

\* floor of the square root of n >= 0
ISqrt(n) == IF n <= 1 THEN n ELSE SqrtIter(n, n)

\* a / b < c / d for a, c >= 0 and b, d > 0, by continued fractions, so that
\* no product is formed
RECURSIVE FracLess(_, _, _, _)
FracLess(a, b, c, d) ==
    LET qa == a \div b
        qc == c \div d
        ra == a % b
        rc == c % d
    IN  IF qa # qc THEN qa < qc
        ELSE IF rc = 0 THEN FALSE
        ELSE IF ra = 0 THEN TRUE
        ELSE FracLess(d, rc, b, ra)

\* a * b < c * d for naturals
LessProd(a, b, c, d) ==
    IF c = 0 \/ d = 0 THEN FALSE
    ELSE IF a = 0 \/ b = 0 THEN TRUE
    ELSE FracLess(a, c, d, b)

\* x * x + y * y < r * r
WithinDist(x, y, r) == x * x + y * y < r * r

---------------------------------------------------------------------------
\* Planet and DwarfPlanet (src/particle_tycoon.py)

PLANET_RADIUS == 48
DWARF_RADIUS == 18
PLANET_UPGRADE_COST == 75
DWARF_UPGRADE_COST == 30
PLANET_GRAVITY_DISTANCE == 500
DWARF_GRAVITY_DISTANCE == 150
PLANET_CLONE_ORBIT_COST == 150
DWARF_CLONE_ORBIT_COST == 999999
DWARF_MAX_LEVEL == 3

\* Planet.__init__(x, y): a regular planet at world position (x, y)
NewPlanet(x, y) ==
    [kind |-> "planet", x |-> x, y |-> y,
     radius |-> PLANET_RADIUS * Scale,
     base_mass |-> PLANET_RADIUS * 2 * Scale,
     gravity_level |-> 1,
     mass |-> PLANET_RADIUS * 2 * Scale,
     particles_collected |-> 0,
     upgrade_cost |-> PLANET_UPGRADE_COST,
     base_gravity_distance |-> PLANET_GRAVITY_DISTANCE * Scale,
     gravity_distance |-> PLANET_GRAVITY_DISTANCE * Scale,
     base_air_resistance_intensity |-> AirScale \div 2,
     air_resistance_intensity |-> AirScale \div 2,
     has_clone_orbit |-> FALSE,
     clone_orbit_radius |-> PLANET_RADIUS * Scale * 4,
     clone_orbit_cost |-> PLANET_CLONE_ORBIT_COST,
     counter_bounce_timer |-> 0,
     shimmer_timer |-> 0,
     hovered |-> FALSE]

\* DwarfPlanet.__init__(x, y)
NewDwarfPlanet(x, y) ==
    [kind |-> "dwarf", x |-> x, y |-> y,
     radius |-> DWARF_RADIUS * Scale,
     base_mass |-> (DWARF_RADIUS * 3 * Scale) \div 2,
     gravity_level |-> 1,
     mass |-> (DWARF_RADIUS * 3 * Scale) \div 2,
     particles_collected |-> 0,
     upgrade_cost |-> DWARF_UPGRADE_COST,
     gravity_distance |-> DWARF_GRAVITY_DISTANCE * Scale,
     base_air_resistance_intensity |-> (AirScale * 3) \div 10,
     air_resistance_intensity |-> (AirScale * 3) \div 10,
     has_clone_orbit |-> FALSE,
     clone_orbit_radius |-> 0,
     clone_orbit_cost |-> DWARF_CLONE_ORBIT_COST,
     counter_bounce_timer |-> 0,
     shimmer_timer |-> 0,
     hovered |-> FALSE]

\* x * (1000 + permille) / 1000: the growth "x *= 1.00p"
Grow(x, permille) == (x * (1000 + permille)) \div 1000

\* A slip in collect_particle: gravity_distance grown from the base value,
\* which forgets the gravity upgrades bought so far
MutPlanetCollectFromBase(p) ==
    LET r == Grow(p.radius, 2)
    IN  [p EXCEPT !.particles_collected = @ + 1,
                  !.radius = r,
                  !.mass = Grow(@, 1),
                  !.gravity_distance = Grow(p.base_gravity_distance, 1),
                  !.air_resistance_intensity = Grow(@, 1),
                  !.clone_orbit_radius = r * 4,
                  !.counter_bounce_timer = MsPerSec \div 2,
                  !.shimmer_timer = (MsPerSec * 3) \div 10]

\* Planet.collect_particle: count the particle, grow radius by 0.2 %, and
\* mass, gravity_distance and air_resistance_intensity by 0.1 %
PlanetCollect(p) ==
    LET r == Grow(p.radius, 2)
    IN  [p EXCEPT !.particles_collected = @ + 1,
                  !.radius = r,
                  !.mass = Grow(@, 1),
                  !.gravity_distance = Grow(@, 1),
                  !.air_resistance_intensity = Grow(@, 1),
                  !.clone_orbit_radius = r * 4,
                  !.counter_bounce_timer = MsPerSec \div 2,
                  !.shimmer_timer = (MsPerSec * 3) \div 10]

\* DwarfPlanet.collect_particle: radius by 0.1 %, mass by 0.05 %
DwarfCollect(p) ==
    [p EXCEPT !.particles_collected = @ + 1,
              !.radius = Grow(@, 1),
              !.mass = (@ * 10005) \div 10000,
              !.counter_bounce_timer = (MsPerSec * 3) \div 10]

collect_particle(p) == IF p.kind = "planet" THEN PlanetCollect(p) ELSE DwarfCollect(p)

\* base * (1 + (level - 1) * tenths / 10)
LevelScaled(base, level, tenths) == (base * (10 + (level - 1) * tenths)) \div 10

\* A slip in Planet.upgrade_gravity: mass recomputed from the level before
\* the increment
MutPlanetUpgradeOldLevel(p) ==
    LET l == p.gravity_level + 1
    IN  [p EXCEPT !.gravity_level = l,
                  !.mass = LevelScaled(p.base_mass, p.gravity_level, 5),
                  !.gravity_distance = LevelScaled(p.base_gravity_distance, l, 3),
                  !.air_resistance_intensity =
                      LevelScaled(p.base_air_resistance_intensity, l, 4),
                  !.upgrade_cost = IntTimes(@, 13)]

\* Planet.upgrade_gravity: no cap on the level
PlanetUpgradeGravity(p) ==
    LET l == p.gravity_level + 1
    IN  [p EXCEPT !.gravity_level = l,
                  !.mass = LevelScaled(p.base_mass, l, 5),
                  !.gravity_distance = LevelScaled(p.base_gravity_distance, l, 3),
                  !.air_resistance_intensity =
                      LevelScaled(p.base_air_resistance_intensity, l, 4),
                  !.upgrade_cost = IntTimes(@, 13)]

\* A slip in DwarfPlanet.upgrade_gravity: the level test left out
MutDwarfUpgradeNoCap(p) ==
    LET l == p.gravity_level + 1
    IN  [p EXCEPT !.gravity_level = l,
                  !.mass = p.base_mass * l,
                  !.upgrade_cost = IntTimes(@, 18)]

\* DwarfPlanet.upgrade_gravity: nothing happens at level 3
DwarfUpgradeGravity(p) ==
    IF p.gravity_level < DWARF_MAX_LEVEL
    THEN LET l == p.gravity_level + 1
         IN  [p EXCEPT !.gravity_level = l,
                       !.mass = p.base_mass * l,
                       !.upgrade_cost = IntTimes(@, 18)]
    ELSE p

upgrade_gravity(p) ==
    IF p.kind = "planet" THEN PlanetUpgradeGravity(p) ELSE DwarfUpgradeGravity(p)

\* Planet.upgrade_clone_orbit; DwarfPlanet.upgrade_clone_orbit does nothing
upgrade_clone_orbit(p) ==
    IF p.kind = "planet"
    THEN [p EXCEPT !.has_clone_orbit = TRUE,
                   !.clone_orbit_cost = IntTimes(@, 15)]
    ELSE p

\* Planet.update / DwarfPlanet.update: the animation timers only
planet_update(p, dt, is_hovered) ==
    [p EXCEPT !.counter_bounce_timer = IF @ > 0 THEN @ - dt ELSE @,
              !.shimmer_timer = IF p.kind = "planet" /\ @ > 0 THEN @ - dt ELSE @,
              !.hovered = is_hovered]

---------------------------------------------------------------------------
\* Wall

\* Wall.__init__(x1, y1, x2, y2)
NewWall(x1, y1, x2, y2) == [x1 |-> x1, y1 |-> y1, x2 |-> x2, y2 |-> y2]

\* Wall.check_collision of src/entities/wall.py and of src/core/game.py (the
\* same text): distance = |A*x2 + B*y2 + C| / sqrt(A*A + B*B), infinite when
\* A*A + B*B = 0; the verdict is distance < radius
EntitiesCheckCollision(w, px, py, radius) ==
    LET A == py - w.y1
        B == w.x1 - px
        C == px * w.y1 - w.x1 * py
        num == Abs(A * w.x2 + B * w.y2 + C)
        den == A * A + B * B
    IN  IF den > 0 THEN LessProd(num, num, radius * radius, den) ELSE FALSE

\* Wall.check_collision of src/particle_tycoon.py: t is the projection of the
\* point on the wall, clamped to [0, 1]; the verdict is dist(point, closest)
\* < radius, and False for a wall of length 0.  t <= 0 puts the closest point
\* at (x1, y1), t >= 1 at (x2, y2); in between dist is |cross| / length.
TycoonCheckCollision(w, px, py, radius) ==
    LET dx == px - w.x1
        dy == py - w.y1
        wall_dx == w.x2 - w.x1
        wall_dy == w.y2 - w.y1
        len2 == wall_dx * wall_dx + wall_dy * wall_dy
        dot == dx * wall_dx + dy * wall_dy
        cross == Abs(dx * wall_dy - dy * wall_dx)
    IN  IF len2 = 0 THEN FALSE
        ELSE IF dot <= 0 THEN WithinDist(dx, dy, radius)
        ELSE IF dot >= len2 THEN WithinDist(px - w.x2, py - w.y2, radius)
        ELSE LessProd(cross, cross, radius * radius, len2)

check_collision(v, w, px, py, radius) ==
    IF v = "entities" THEN EntitiesCheckCollision(w, px, py, radius)
    ELSE TycoonCheckCollision(w, px, py, radius)

---------------------------------------------------------------------------
\* Particle: construction and the helpers of update()

PARTICLE_RADIUS == 5           \* self.radius
LIFETIME == 20000             \* self.lifetime = 20.0 seconds
WORLD_LIMIT == 100000         \* despawn bound, world units
ENTITIES_FADE_TIME == 1000    \* entities: dead when fade_timer >= 1.0
ENTITIES_EXPLOSION_TIME == 1000  \* entities: dead when explosion_timer > 1.0
TYCOON_FADE_TIME == 1000      \* tycoon: fade_timer = 1.0, counted down
TYCOON_EXPLOSION_TIME == 200  \* tycoon: explosion_timer = 0.2, counted down
FADE_ZONE == 200              \* fade_distance: width of the gravity fade zone
GAME_GRAVITY_DISTANCE == 1000 \* Game.gravity_distance handed to update()

\* Game.air_resistance_intensity handed to update(): 0.1
GameAirResistance == AirScale \div 10

\* Particle.__init__(x, y) with the velocity the random angle and speed gave;
\* id stands for the identity of the object (list.remove compares by it)
NewParticle(x, y, vx, vy) ==
    [id |-> 0, x |-> x, y |-> y, vx |-> vx, vy |-> vy,
     radius |-> PARTICLE_RADIUS * Scale, mass |-> 1,
     alive |-> TRUE,
     lifetime |-> LIFETIME, age |-> 0,
     exploding |-> FALSE, explosion_timer |-> 0, explosion_particles |-> 0,
     fading |-> FALSE, fade_timer |-> 0,
     cloned |-> FALSE,
     pending_clones |-> <<>>]

\* math.sqrt(dx*dx + dy*dy), rounded down to a model unit; off the axes and
\* beyond 320 world units the operands are taken in tens so that the squares
\* stay within 32 bits
RECURSIVE Dist(_, _)
Dist(dx, dy) ==
    IF dy = 0 THEN Abs(dx)
    ELSE IF dx = 0 THEN Abs(dy)
    ELSE IF Abs(dx) < 32000 /\ Abs(dy) < 32000 THEN ISqrt(dx * dx + dy * dy)
    ELSE 10 * Dist(Div(dx, 10), Div(dy, 10))

\* What one update() call hands back: the particle, the planets (the tycoon
\* particle calls planet.collect_particle), the index of the planet that
\* collected the particle in this call (0: none) and the Collected events
Outcome(p, pls, hit) ==
    [part |-> p, planets |-> pls, hit |-> hit,
     events |-> IF hit = 0 THEN <<>> ELSE <<[planet |-> hit, value |-> 1]>>]

---------------------------------------------------------------------------
\* Particle.update of src/entities/particle.py.  Times are in milliseconds,
\* lengths and velocities in 1/Scale world units, forces in millionths.

Micro == 1000 * 1000

\* Planet.__init__ and DwarfPlanet.__init__ of src/entities/planet.py: what
\* Particle.update reads of them
EntitiesPlanet(x, y) ==
    [kind |-> "planet", x |-> x, y |-> y,
     radius |-> PLANET_RADIUS * Scale,
     mass |-> PLANET_RADIUS * 2 * Scale,
     gravity_distance |-> PLANET_GRAVITY_DISTANCE * Scale]

EntitiesDwarfPlanet(x, y) ==
    [kind |-> "dwarf", x |-> x, y |-> y,
     radius |-> 20 * Scale,
     mass |-> 16 * Scale,
     gravity_distance |-> 300 * Scale]

\* _start_fading
start_fading(p) == [p EXCEPT !.fading = TRUE, !.fade_timer = 0]

\* _start_explosion: the timer from zero and eight fragments
start_explosion(p) ==
    [p EXCEPT !.exploding = TRUE, !.explosion_timer = 0,
              !.explosion_particles = @ + 8]

\* _clone_particle(planet): a Collected event of value 1 for planet number i
EntitiesCloneParticle(p, i) ==
    [p EXCEPT !.pending_clones =
        Append(@, [planet |-> i, value |-> 1, x |-> p.x, y |-> p.y])]

\* if self.exploding: the timer counts up, dead once it is over a second
EntitiesExplodingStep(p, dt) ==
    LET t == p.explosion_timer + dt
    IN  [p EXCEPT !.explosion_timer = t,
                  !.alive = ~(t > ENTITIES_EXPLOSION_TIME)]

\* if self.fading: the timer counts up, dead once it reaches a second
EntitiesFadingStep(p, dt) ==
    LET t == p.fade_timer + dt
    IN  [p EXCEPT !.fade_timer = t, !.alive = ~(t >= ENTITIES_FADE_TIME)]

\* The gravity loop: the sum over planets i.. of (fx, fy), in millionths of a
\* world unit.  force = planet.mass * self.mass / distance^2 * 0.1, for a
\* planet closer than gravity_distance and not in contact.
RECURSIVE EntitiesForce(_, _, _, _)
EntitiesForce(p, pls, gravity_distance, i) ==
    IF i > Len(pls) THEN <<0, 0>>
    ELSE LET pl == pls[i]
             dx == pl.x - p.x
             dy == pl.y - p.y
             distance == Dist(dx, dy)
             rest == EntitiesForce(p, pls, gravity_distance, i + 1)
             force == Div(Div(pl.mass * p.mass * Scale * 1000, distance) * 100,
                          distance)
         IN  IF /\ distance < gravity_distance
                /\ distance > pl.radius + p.radius
                /\ distance > 0
             THEN <<rest[1] + Div(dx * force, distance),
                    rest[2] + Div(dy * force, distance)>>
             ELSE rest

\* self.vx += total_fx * dt
EntitiesGravity(p, dt, pls, gravity_distance) ==
    LET total == EntitiesForce(p, pls, gravity_distance, 1)
        perUnit == (Micro \div Scale) * MsPerSec
    IN  [p EXCEPT !.vx = @ + Div(total[1] * dt, perUnit),
                  !.vy = @ + Div(total[2] * dt, perUnit)]

\* The air loop, planet after planet: within three radii of a planet the
\* velocity is multiplied by 1 - intensity * (1 - distance / (3 radius)) * dt
RECURSIVE EntitiesAir(_, _, _, _, _)
EntitiesAir(p, dt, pls, air_resistance_intensity, i) ==
    IF i > Len(pls) THEN p
    ELSE LET pl == pls[i]
             distance == Dist(pl.x - p.x, pl.y - p.y)
             air_factor == AirScale - Div(distance * AirScale, pl.radius * 3)
             resistance == Div(air_resistance_intensity * air_factor, AirScale)
             factor == AirScale - Div(resistance * dt, MsPerSec)
             q == IF distance < pl.radius * 3
                  THEN [p EXCEPT !.vx = Div(@ * factor, AirScale),
                                 !.vy = Div(@ * factor, AirScale)]
                  ELSE p
         IN  EntitiesAir(q, dt, pls, air_resistance_intensity, i + 1)

\* self.x += self.vx * dt * 60
EntitiesMove(p, dt) ==
    [p EXCEPT !.x = @ + Div(p.vx * dt * 60, MsPerSec),
              !.y = @ + Div(p.vy * dt * 60, MsPerSec)]

\* The wall loop, wall after wall: on a hit the velocity is reversed and
\* damped by 0.8 and the particle is moved by velocity * dt * 10
RECURSIVE EntitiesWalls(_, _, _, _)
EntitiesWalls(p, dt, wls, i) ==
    IF i > Len(wls) THEN p
    ELSE LET vx == Div(-8 * p.vx, 10)
             vy == Div(-8 * p.vy, 10)
             q == IF EntitiesCheckCollision(wls[i], p.x, p.y, p.radius)
                  THEN [p EXCEPT !.vx = vx, !.vy = vy,
                                 !.x = @ + Div(vx * dt * 10, MsPerSec),
                                 !.y = @ + Div(vy * dt * 10, MsPerSec)]
                  ELSE p
         IN  EntitiesWalls(q, dt, wls, i + 1)

\* The collection loop: the first planet i.. with distance < planet.radius +
\* self.radius, 0 when there is none
RECURSIVE EntitiesTouch(_, _, _)
EntitiesTouch(p, pls, i) ==
    IF i > Len(pls) THEN 0
    ELSE IF Dist(pls[i].x - p.x, pls[i].y - p.y) < pls[i].radius + p.radius
         THEN i
         ELSE EntitiesTouch(p, pls, i + 1)

\* abs(self.x) > WORLD_LIMIT or abs(self.y) > WORLD_LIMIT
OutOfWorld(p) ==
    \/ Abs(p.x) > WORLD_LIMIT * Scale
    \/ Abs(p.y) > WORLD_LIMIT * Scale

\* A slip in update: the return after _start_fading() left out, so that a
\* particle that has just started to fade goes on to the physics and the
\* collection test of the same call
MutEntitiesAging(p, dt) ==
    LET q == [p EXCEPT !.age = @ + dt]
    IN  IF q.age > q.lifetime
        THEN [part |-> start_fading(q), return |-> FALSE]
        ELSE [part |-> q, return |-> FALSE]

\* self.age += dt; if self.age > self.lifetime: self._start_fading(); return
EntitiesAging(p, dt) ==
    LET q == [p EXCEPT !.age = @ + dt]
    IN  IF q.age > q.lifetime
        THEN [part |-> start_fading(q), return |-> TRUE]
        ELSE [part |-> q, return |-> FALSE]

\* The world boundary test at the end of update
Despawn(p) == IF OutOfWorld(p) THEN [p EXCEPT !.alive = FALSE] ELSE p

\* update() from the gravity loop to the wall loop
EntitiesPhysics(p, dt, pls, wls, gravity_distance, air_resistance_intensity) ==
    EntitiesWalls(
        EntitiesMove(
            EntitiesAir(EntitiesGravity(p, dt, pls, gravity_distance),
                        dt, pls, air_resistance_intensity, 1),
            dt),
        dt, wls, 1)

\* update() from the collection loop on: the planet hit (0: none) collects
\* the particle, which starts to explode; otherwise the boundary test
EntitiesCollect(p, pls, hit) ==
    IF hit # 0
    THEN Outcome(start_explosion(EntitiesCloneParticle(p, hit)), pls, hit)
    ELSE Outcome(Despawn(p), pls, 0)

\* update() after the lifetime test
EntitiesAged(aged, pls, moved) ==
    IF aged.return THEN Outcome(aged.part, pls, 0)
    ELSE EntitiesCollect(moved, pls, EntitiesTouch(moved, pls, 1))

\* update() of a particle that is alive and not exploding, after the fading
\* branch
EntitiesLive(p, dt, pls, wls, gravity_distance, air_resistance_intensity) ==
    IF ~p.alive THEN Outcome(p, pls, 0)
    ELSE EntitiesAged(EntitiesAging(p, dt), pls,
                      EntitiesPhysics(EntitiesAging(p, dt).part, dt, pls, wls,
                                      gravity_distance,
                                      air_resistance_intensity))

\* Particle.update(dt, planets, gravity_distance, air_resistance_intensity,
\* camera, sfx_volume, walls)
EntitiesUpdate(p, dt, pls, wls, gravity_distance, air_resistance_intensity) ==
    IF ~p.alive THEN Outcome(p, pls, 0)
    ELSE IF p.exploding THEN Outcome(EntitiesExplodingStep(p, dt), pls, 0)
    ELSE EntitiesLive(IF p.fading THEN EntitiesFadingStep(p, dt) ELSE p,
                      dt, pls, wls, gravity_distance, air_resistance_intensity)

---------------------------------------------------------------------------
\* Particle.update of src/particle_tycoon.py.  Velocities are per call: this
\* revision adds them to the position without dt.

NormScale == 10 * 100

\* Wall.__init__: the unit normal (nx, ny) = ((y2 - y1), -(x2 - x1)) / length,
\* in 1/NormScale; (0, 0) for a wall of length 0
WallNormal(w) ==
    LET length == Dist(w.x2 - w.x1, w.y2 - w.y1)
    IN  IF length > 0
        THEN <<Div((w.y2 - w.y1) * NormScale, length),
               Div(-(w.x2 - w.x1) * NormScale, length)>>
        ELSE <<0, 0>>

\* _clone_particle(planet): nothing for a particle at rest; otherwise the
\* velocity is turned by 0.3 of itself to one side, and a clone with the
\* velocity turned to the other side is queued in _pending_clones
TycoonCloneParticle(p) ==
    LET sx == Div(-3 * p.vy, 10)
        sy == Div(3 * p.vx, 10)
        q == [p EXCEPT !.vx = @ + sx, !.vy = @ + sy]
    IN  IF p.vx = 0 /\ p.vy = 0 THEN p
        ELSE [q EXCEPT !.pending_clones =
                 Append(@, [x |-> p.x, y |-> p.y,
                            vx |-> q.vx - 2 * sx, vy |-> q.vy - 2 * sy,
                            radius |-> p.radius, mass |-> p.mass,
                            age |-> p.age, lifetime |-> p.lifetime])]

\* distance_factor, as a numerator over FADE_ZONE * Scale: all of it inside
\* gravity_distance, falling to 0 over the next 200 units
DistanceFactor(distance, gravity_distance) ==
    IF distance < gravity_distance THEN FADE_ZONE * Scale
    ELSE Max(0, FADE_ZONE * Scale - (distance - gravity_distance))

\* force = planet.mass / distance^1.5 * 2.0 * distance_factor, as a velocity
\* change per call
TycoonForce(pl, distance) ==
    LET root == ISqrt(distance * Scale)
        base_force == Div(2 * pl.mass * Scale * Scale, distance * root)
    IN  Div(base_force * DistanceFactor(distance, pl.gravity_distance),
            FADE_ZONE * Scale)

\* air_strength, in 1/AirScale: 1 - distance / gravity_distance inside the
\* gravity distance and half the distance factor in the fade zone
TycoonAirStrength(pl, distance) ==
    IF distance < pl.gravity_distance
    THEN AirScale - Div(distance * AirScale, pl.gravity_distance)
    ELSE Div(AirScale * DistanceFactor(distance, pl.gravity_distance),
             FADE_ZONE * Scale) \div 2

\* air_resistance = 0.015 * planet.air_resistance_intensity * air_strength,
\* in millionths
TycoonAirResistance(pl, distance) ==
    Div(15 * Div(pl.air_resistance_intensity * TycoonAirStrength(pl, distance),
                 1000), 100)

\* if force > 0: self.vx += (dx / distance) * force.  The force is positive
\* exactly where the distance factor is.
Pulled(pl, distance) ==
    pl.mass > 0 /\ DistanceFactor(distance, pl.gravity_distance) > 0

TycoonGravity(p, pl, dx, dy, distance, force) ==
    IF Pulled(pl, distance)
    THEN [p EXCEPT !.vx = @ + Div(dx * force, distance),
                   !.vy = @ + Div(dy * force, distance)]
    ELSE p

\* Air resistance within gravity_distance + 200 of the planet, on the
\* velocity gravity has just changed: self.vx += -self.vx * air_resistance
TycoonAir(p, pl, distance, air_resistance) ==
    IF distance < pl.gravity_distance + FADE_ZONE * Scale
    THEN [p EXCEPT !.vx = @ - Div(p.vx * air_resistance, Micro),
                   !.vy = @ - Div(p.vy * air_resistance, Micro)]
    ELSE p

\* The clone orbit test of the planet loop: a particle not yet marked that is
\* within 3 units of the orbit is cloned and marked
TycoonOrbit(p, pl, distance) ==
    IF /\ pl.has_clone_orbit
       /\ ~p.cloned
       /\ Abs(distance - pl.clone_orbit_radius) <= 3 * Scale
    THEN [TycoonCloneParticle(p) EXCEPT !.cloned = TRUE]
    ELSE p

\* The planet collision branch: a particle that is not fading starts a 0.2 s
\* explosion of six fragments; fading or not, alive becomes False
TycoonCollide(p) ==
    IF ~p.fading
    THEN [p EXCEPT !.exploding = TRUE,
                   !.explosion_timer = TYCOON_EXPLOSION_TIME,
                   !.explosion_particles = 6,
                   !.alive = FALSE]
    ELSE [p EXCEPT !.alive = FALSE]

\* for planet in planets: clone orbit, collision (which ends the call), gravity
\* and air resistance.  st carries the particle, the planets, whether gravity
\* acted, and the planet that collected the particle (0: none).
RECURSIVE TycoonPlanetLoop(_, _)
TycoonPlanetStep(st, i, p1, pl, dx, dy, distance) ==
    IF distance < pl.radius + p1.radius + 2 * Scale
    THEN [part |-> TycoonCollide(p1),
          planets |-> [st.planets EXCEPT ![i] = collect_particle(@)],
          affected |-> st.affected, hit |-> i]
    ELSE IF distance > 0
         THEN TycoonPlanetLoop(
                  [part |-> TycoonAir(
                                TycoonGravity(p1, pl, dx, dy, distance,
                                              TycoonForce(pl, distance)),
                                pl, distance,
                                TycoonAirResistance(pl, distance)),
                   planets |-> st.planets,
                   affected |-> st.affected \/ Pulled(pl, distance),
                   hit |-> 0], i + 1)
         ELSE TycoonPlanetLoop([st EXCEPT !.part = p1], i + 1)

TycoonPlanetAt(st, i, dx, dy, distance) ==
    TycoonPlanetStep(st, i, TycoonOrbit(st.part, st.planets[i], distance),
                     st.planets[i], dx, dy, distance)

TycoonPlanetLoop(st, i) ==
    IF i > Len(st.planets) THEN st
    ELSE TycoonPlanetAt(st, i, st.planets[i].x - st.part.x,
                        st.planets[i].y - st.part.y,
                        Dist(st.planets[i].x - st.part.x,
                             st.planets[i].y - st.part.y))

\* On a wall hit: the velocity reflected about the normal n and damped by
\* 0.8, the particle moved radius + 1 along the normal
TycoonBounce(p, n, dot_product) ==
    [p EXCEPT !.vx = Div(8 * (@ - Div(2 * dot_product * n[1], NormScale)), 10),
              !.vy = Div(8 * (@ - Div(2 * dot_product * n[2], NormScale)), 10),
              !.x = @ + Div(n[1] * (p.radius + Scale), NormScale),
              !.y = @ + Div(n[2] * (p.radius + Scale), NormScale)]

\* dot_product = self.vx * nx + self.vy * ny
TycoonDot(p, n) == Div(p.vx * n[1] + p.vy * n[2], NormScale)

\* The wall loop: the first wall hit bounces the particle and ends the loop
RECURSIVE TycoonWalls(_, _, _)
TycoonWalls(p, wls, i) ==
    IF i > Len(wls) THEN p
    ELSE IF TycoonCheckCollision(wls[i], p.x, p.y, p.radius)
         THEN TycoonBounce(p, WallNormal(wls[i]),
                           TycoonDot(p, WallNormal(wls[i])))
         ELSE TycoonWalls(p, wls, i + 1)

\* A lifetime test that lets a particle live a quarter of its lifetime longer
MutTycoonStartFadingLate(p) ==
    IF p.age >= p.lifetime + p.lifetime \div 4 /\ ~p.exploding /\ ~p.fading
    THEN [p EXCEPT !.fading = TRUE, !.fade_timer = TYCOON_FADE_TIME]
    ELSE p

\* if self.age >= self.lifetime and not self.exploding and not self.fading
TycoonStartFading(p) ==
    IF p.age >= p.lifetime /\ ~p.exploding /\ ~p.fading
    THEN [p EXCEPT !.fading = TRUE, !.fade_timer = TYCOON_FADE_TIME]
    ELSE p

\* if self.exploding: the timer counts down, dead at zero
TycoonExplodingStep(p, dt) ==
    [p EXCEPT !.explosion_timer = @ - dt,
              !.alive = ~(p.explosion_timer - dt <= 0)]

\* if self.fading: the timer counts down, dead at zero; the call goes on
TycoonFadingStep(p, dt) ==
    IF p.fading
    THEN [p EXCEPT !.fade_timer = @ - dt, !.alive = ~(p.fade_timer - dt <= 0)]
    ELSE p

\* if not affected_by_gravity: self.age += dt
TycoonAging(p, affected, dt) ==
    IF affected THEN p ELSE [p EXCEPT !.age = @ + dt]

\* self.x += self.vx; self.y += self.vy
TycoonMove(p) == [p EXCEPT !.x = @ + p.vx, !.y = @ + p.vy]

\* update() after the planet loop
TycoonFinish(st, dt, wls) ==
    IF st.hit # 0 THEN Outcome(st.part, st.planets, st.hit)
    ELSE Outcome(Despawn(TycoonWalls(
                     TycoonMove(TycoonAging(st.part, st.affected, dt)),
                     wls, 1)),
                 st.planets, 0)

\* update() of a particle that is alive, after the lifetime test
TycoonLive(p, dt, pls, wls) ==
    IF p.exploding THEN Outcome(TycoonExplodingStep(p, dt), pls, 0)
    ELSE TycoonFinish(
             TycoonPlanetLoop([part |-> TycoonFadingStep(p, dt),
                               planets |-> pls,
                               affected |-> FALSE, hit |-> 0], 1),
             dt, wls)

\* Particle.update(dt, planets, gravity_distance, air_resistance_intensity,
\* camera, sfx_volume, walls)
TycoonUpdate(p, dt, pls, wls) ==
    IF ~p.alive THEN Outcome(p, pls, 0)
    ELSE TycoonLive(TycoonStartFading(p), dt, pls, wls)

\* particle.update(...) of the revision in use
ParticleUpdate(v, p, dt, pls, wls) ==
    IF v = "entities"
    THEN EntitiesUpdate(p, dt, pls, wls, GAME_GRAVITY_DISTANCE * Scale,
                        GameAirResistance)
    ELSE TycoonUpdate(p, dt, pls, wls)

\* The lifecycle state of a particle, from its flags
State(p) ==
    IF ~p.alive THEN "Dead"
    ELSE IF p.exploding THEN "Exploding"
    ELSE IF p.fading THEN "Fading"
    ELSE "Alive"

---------------------------------------------------------------------------
\* Frame times in milliseconds: a frame of the 60 Hz loop, a hitch of half a
\* second and a long stall (dt = clock.tick(FPS) / 1000.0 has no upper limit)

DtSet == {17, 500, 12000}

\* Values of the variables a specification does not use
NoPart == [alive |-> FALSE]

NoMgr == [kind |-> "none"]

NoOp == [name |-> "init"]

NoHist == [fading_for |-> 0]
NoGame == [money |-> 0]

---------------------------------------------------------------------------
\* SpecPlanet: one planet or dwarf planet and the calls the game makes on it

MaxCalls == 6

\* A planet after n collect_particle() calls
RECURSIVE Collected(_, _)
Collected(pl, n) ==
    LET q == collect_particle(pl)
    IN  IF n > 0 /\ q.particles_collected > pl.particles_collected
        THEN Collected(q, n - 1)
        ELSE pl

\* A planet after n gravity upgrades
RECURSIVE Upgraded(_, _)
Upgraded(pl, n) == IF n = 0 THEN pl ELSE Upgraded(upgrade_gravity(pl), n - 1)

\* A planet of a game in progress: the gravity upgrades it has had, and the
\* particles it has collected since the last of them
UpgradedBefore == 10
CollectedBefore == 90
PlanetInProgress ==
    Collected(Upgraded(NewPlanet(0, 0), UpgradedBefore), CollectedBefore)

InitPlanet ==
    /\ variant = "tycoon"
    /\ \/ /\ planets \in {<<NewPlanet(0, 0)>>, <<NewDwarfPlanet(0, 0)>>}
          /\ op = NoOp
       \/ /\ planets = <<PlanetInProgress>>
          /\ op = [name |-> "in_progress"]
    /\ walls = <<>>
    /\ part = NoPart
    /\ mgr = NoMgr
    /\ hist = NoHist
    /\ calls = 0
    /\ game = NoGame

\* planet.collect_particle(camera, sfx_volume, x, y)
CallCollect ==
    /\ calls < MaxCalls
    /\ planets' = [planets EXCEPT ![1] = collect_particle(@)]
    /\ op' = [name |-> "collect_particle", before |-> planets[1]]
    /\ calls' = calls + 1
    /\ UNCHANGED <<variant, walls, part, mgr, hist, game>>

\* selected_planet.upgrade_gravity()
CallUpgradeGravity ==
    /\ calls < MaxCalls
    /\ planets' = [planets EXCEPT ![1] = upgrade_gravity(@)]
    /\ op' = [name |-> "upgrade_gravity", before |-> planets[1]]
    /\ calls' = calls + 1
    /\ UNCHANGED <<variant, walls, part, mgr, hist, game>>

\* selected_planet.upgrade_clone_orbit()
CallUpgradeCloneOrbit ==
    /\ calls < MaxCalls
    /\ planets' = [planets EXCEPT ![1] = upgrade_clone_orbit(@)]
    /\ op' = [name |-> "upgrade_clone_orbit", before |-> planets[1]]
    /\ calls' = calls + 1
    /\ UNCHANGED <<variant, walls, part, mgr, hist, game>>

\* planet.update(dt, is_hovered)
CallPlanetUpdate ==
    /\ calls < MaxCalls
    /\ \E dt \in {17, 250}, h \in BOOLEAN :
           planets' = [planets EXCEPT ![1] = planet_update(@, dt, h)]
    /\ op' = [name |-> "update", before |-> planets[1]]
    /\ calls' = calls + 1
    /\ UNCHANGED <<variant, walls, part, mgr, hist, game>>

NextPlanet ==
    \/ CallCollect
    \/ CallUpgradeGravity
    \/ CallUpgradeCloneOrbit
    \/ CallPlanetUpdate

SpecPlanet == InitPlanet /\ [][NextPlanet]_vars

---------------------------------------------------------------------------
\* Claims about Planet and DwarfPlanet (checked under SpecPlanet)

ThePlanet == planets[1]

\* C7: across any sequence of collect_particle() calls on a Planet or a
\* DwarfPlanet, radius, mass and gravity_distance never decrease and
\* particles_collected goes up by exactly 1 per call.
C7_CollectMonotone ==
    op.name = "collect_particle" =>
        /\ ThePlanet.radius >= op.before.radius
        /\ ThePlanet.mass >= op.before.mass
        /\ ThePlanet.gravity_distance >= op.before.gravity_distance
        /\ ThePlanet.particles_collected = op.before.particles_collected + 1

\* a second collection in a row by a planet whose gravity was upgraded before
C7_Witness ==
    /\ op.name = "collect_particle"
    /\ ThePlanet.kind = "planet"
    /\ ThePlanet.gravity_level >= 2
    /\ ThePlanet.particles_collected >= 2
    /\ ThePlanet.gravity_distance > op.before.gravity_distance

C9_Original ==
    op.name = "upgrade_gravity" =>
        /\ ThePlanet.gravity_level = op.before.gravity_level + 1
        /\ ThePlanet.mass =
               LevelScaled(ThePlanet.base_mass, ThePlanet.gravity_level,
                           IF ThePlanet.kind = "planet" THEN 5 ELSE 10)
        /\ ThePlanet.upgrade_cost =
               IntTimes(op.before.upgrade_cost,
                        IF ThePlanet.kind = "planet" THEN 13 ELSE 18)
        /\ ThePlanet.upgrade_cost > op.before.upgrade_cost

\* C9 as amended: Planet.upgrade_gravity() raises the level by 1, recomputes
\* mass, gravity_distance and air_resistance_intensity from the new level
\* (k = 0.5, 0.3, 0.4) and sets upgrade_cost to int(cost x 1.3), which is
\* larger.  DwarfPlanet.upgrade_gravity() below level 3 raises the level by
\* 1, recomputes only mass (base_mass x level), leaves gravity_distance and
\* air_resistance_intensity as they were and sets upgrade_cost to
\* int(cost x 1.8), which is larger; at level 3 the call changes nothing.
C9_Amended ==
    op.name = "upgrade_gravity" =>
        LET p == op.before
            q == ThePlanet
        IN  /\ q.kind = "planet" =>
                /\ q.gravity_level = p.gravity_level + 1
                /\ q.mass = LevelScaled(q.base_mass, q.gravity_level, 5)
                /\ q.gravity_distance =
                       LevelScaled(q.base_gravity_distance, q.gravity_level, 3)
                /\ q.air_resistance_intensity =
                       LevelScaled(q.base_air_resistance_intensity,
                                   q.gravity_level, 4)
                /\ q.upgrade_cost = IntTimes(p.upgrade_cost, 13)
                /\ q.upgrade_cost > p.upgrade_cost
            /\ (q.kind = "dwarf" /\ p.gravity_level < 3) =>
                /\ q.gravity_level = p.gravity_level + 1
                /\ q.mass = q.base_mass * q.gravity_level
                /\ q.gravity_distance = p.gravity_distance
                /\ q.air_resistance_intensity = p.air_resistance_intensity
                /\ q.upgrade_cost = IntTimes(p.upgrade_cost, 18)
                /\ q.upgrade_cost > p.upgrade_cost
            /\ (q.kind = "dwarf" /\ p.gravity_level >= 3) => q = p

\* a planet upgraded after it collected a particle, at level 3 or more
C9_Witness ==
    /\ op.name = "upgrade_gravity"
    /\ ThePlanet.kind = "planet"
    /\ ThePlanet.gravity_level >= 3
    /\ op.before.particles_collected >= 1
    /\ op.before.mass # LevelScaled(ThePlanet.base_mass, op.before.gravity_level, 5)

---------------------------------------------------------------------------
\* SpecWall: a wall between grid points, probed with check_collision

WallGrid == 2


WallCoords == {4 * k : k \in 0..WallGrid}

ProbeCoords == {2 * k : k \in (-WallGrid)..(2 * WallGrid)}

InitWall ==
    /\ variant \in {"entities", "tycoon"}
    /\ planets = <<>>
    /\ \E x1 \in WallCoords, y1 \in WallCoords, x2 \in WallCoords, y2 \in WallCoords :
           walls = <<NewWall(x1, y1, x2, y2)>>
    /\ part = NoPart
    /\ mgr = NoMgr
    /\ op = NoOp
    /\ hist = NoHist
    /\ calls = 0
    /\ game = NoGame

\* wall.check_collision(px, py, radius)
CallCheckCollision ==
    /\ \E px \in ProbeCoords, py \in ProbeCoords, radius \in {2, PARTICLE_RADIUS} :
           op' = [name |-> "check_collision", px |-> px, py |-> py,
                  radius |-> radius,
                  hit |-> check_collision(variant, walls[1], px, py, radius)]
    /\ UNCHANGED <<variant, planets, walls, part, mgr, hist, calls, game>>

NextWall == CallCheckCollision

SpecWall == InitWall /\ [][NextWall]_vars

---------------------------------------------------------------------------
\* Claims about Wall (checked under SpecWall)

TheWall == walls[1]

\* The point-to-segment test as the specification words it: with
\* t = clamp(dot(point - p1, p2 - p1) / |p2 - p1|^2, 0, 1) and closest =
\* p1 + t (p2 - p1), dist(point, closest) < radius.  t is kept as the
\* fraction tn / len2 and both sides are multiplied by len2^2.
SegmentCloserThan(w, px, py, radius) ==
    LET wx == w.x2 - w.x1
        wy == w.y2 - w.y1
        len2 == wx * wx + wy * wy
        dot == (px - w.x1) * wx + (py - w.y1) * wy
        tn == Max(0, Min(len2, dot))
        ex == (px - w.x1) * len2 - tn * wx
        ey == (py - w.y1) * len2 - tn * wy
    IN  ex * ex + ey * ey < radius * radius * len2 * len2

\* C10: for every wall with distinct endpoints, every point and every
\* radius, check_collision reports a collision exactly when the distance
\* from the point to the closest point of the segment is less than radius.
C10_ExactSegmentDistance ==
    (op.name = "check_collision" /\
     (TheWall.x1 # TheWall.x2 \/ TheWall.y1 # TheWall.y2)) =>
        (op.hit <=> SegmentCloserThan(TheWall, op.px, op.py, op.radius))

\* Wall(x2, y2, x1, y1): the wall w built from its endpoints in the other
\* order
Reversed(w) == NewWall(w.x2, w.y2, w.x1, w.y1)

\* C11: for every wall, every point and every radius, check_collision gives
\* the same verdict for the wall built from (p1, p2) and for the wall built
\* from (p2, p1).
C11_EndpointOrder ==
    op.name = "check_collision" =>
        (op.hit <=> check_collision(variant, Reversed(TheWall),
                                    op.px, op.py, op.radius))

---------------------------------------------------------------------------
\* Spec: one particle from its construction on, the update() calls the frame
\* loop makes on it, and the planets the player places next to it.  The
\* purchase (money, cost) of a placement is not part of this specification.

MaxTicks == 5
MaxPlanets == 1

\* Velocities at construction (speed between 0.8 and 2.2): toward +x, toward
\* -x, and across
Velocities == {<<2 * Scale, 0>>, <<-2 * Scale, 0>>, <<0, Scale>>}

\* How far beyond contact (planet.radius + particle.radius) the player puts
\* a planet, in world units
PlaceGaps == {-1, 8}

Init ==
    /\ variant \in {"entities", "tycoon"}
    /\ planets = <<>>
    /\ walls = <<>>
    /\ \E v \in Velocities : part = NewParticle(0, 0, v[1], v[2])
    /\ mgr = NoMgr
    /\ op = NoOp
    /\ hist = NoHist
    /\ calls = 0
    /\ game = NoGame

\* Planet(world_x, world_y) or DwarfPlanet(world_x, world_y) of the revision
MakePlanet(v, kind, x, y) ==
    IF v = "entities"
    THEN IF kind = "planet" THEN EntitiesPlanet(x, y)
                            ELSE EntitiesDwarfPlanet(x, y)
    ELSE IF kind = "planet" THEN NewPlanet(x, y) ELSE NewDwarfPlanet(x, y)

\* Game.can_place_planet (tycoon): at least 50 units from every planet; the
\* entities Game places without a test
can_place_planet(v, pls, x, y) ==
    \/ v = "entities"
    \/ \A i \in 1..Len(pls) : ~(Dist(x - pls[i].x, y - pls[i].y) < 50 * Scale)

\* A click in placement mode: self.planets.append(Planet(world_x, world_y)),
\* here on the +x side of the particle
PlacePlanet ==
    /\ Len(planets) < MaxPlanets
    /\ \E kind \in {"planet", "dwarf"}, gap \in PlaceGaps :
          LET r == MakePlanet(variant, kind, 0, 0).radius
              x == part.x + r + part.radius + gap * Scale
          IN  /\ can_place_planet(variant, planets, x, part.y)
              /\ planets' = Append(planets,
                                   MakePlanet(variant, kind, x, part.y))
    /\ op' = [name |-> "place_planet"]
    /\ UNCHANGED <<variant, walls, part, mgr, hist, calls, game>>

\* particle.update(dt, planets, ...): the particle and the planets after the
\* call, and the record of the call
UpdateBy(dt) ==
    LET out == ParticleUpdate(variant, part, dt, planets, walls)
    IN  /\ part' = out.part
        /\ planets' = out.planets
        /\ op' = [name |-> "update", dt |-> dt, before |-> part,
                  planets |-> planets, hit |-> out.hit,
                  events |-> out.events]
        /\ hist' = [fading_for |->
                      IF part.alive /\ part.fading /\ out.part.fading
                      THEN hist.fading_for + dt ELSE 0]

\* particle.update(dt, planets, ...) with the frame time dt
CallUpdate ==
    /\ calls < MaxTicks
    /\ \E dt \in DtSet : UpdateBy(dt)
    /\ calls' = calls + 1
    /\ UNCHANGED <<variant, walls, mgr, game>>

Next ==
    \/ PlacePlanet
    \/ CallUpdate

Spec == Init /\ [][Next]_vars

---------------------------------------------------------------------------
\* ParticleEmitter and ParticleSpawner: the population managers.  The spawn
\* timer is kept in microseconds.  random is a generator with a short period:
\* draw number k gives the place and the velocity of the particle spawned.

EMITTER_SPAWN_RATE == 90          \* ParticleEmitter: particles per second
ENTITIES_SPAWNER_RATE == 5        \* entities ParticleSpawner
TYCOON_SPAWNER_RATE == 20         \* tycoon ParticleSpawner(x, y, spawn_rate=20)
RngPeriod == 3 * 4

\* random.uniform(-world_width//2, world_width//2) of the emitter: world x
\* of draw k (y is 0): in contact with a planet at the origin, near it, on
\* its clone orbit, far from it
EmitterPoints == <<50, 70, 192, 3000>>

\* random.uniform(-offset, offset) of a spawner: offset of draw k
SpawnerOffsets == <<-20, 0, 20, 10>>

\* The velocity of draw k (angle and speed of Particle.__init__)
SpawnVelocities == <<<<-2 * Scale, 0>>, <<2 * Scale, 0>>, <<0, Scale>>>>

\* ParticleEmitter.__init__()
NewEmitter(seed) ==
    [kind |-> "emitter", spawn_rate |-> EMITTER_SPAWN_RATE, spawn_timer |-> 0,
     particles |-> <<>>, rng |-> seed, next_id |-> 1]

\* ParticleSpawner.__init__(x, y)
NewSpawner(v, x, y, seed) ==
    [kind |-> "spawner", x |-> x, y |-> y,
     spawn_rate |-> IF v = "entities" THEN ENTITIES_SPAWNER_RATE
                    ELSE TYCOON_SPAWNER_RATE,
     spawn_timer |-> 0,
     particles |-> <<>>, rng |-> seed, next_id |-> 1]

\* Particle(px, py, pz) as the spawn loop builds it from draw k, for the
\* emitter or for a spawner at (x, y)
SpawnedParticle(kind, x, y, k, id) ==
    [NewParticle(IF kind = "emitter" THEN EmitterPoints[(k % 4) + 1] * Scale
                 ELSE x + SpawnerOffsets[(k % 4) + 1] * Scale,
                 IF kind = "emitter" THEN 0 ELSE y,
                 SpawnVelocities[(k % 3) + 1][1],
                 SpawnVelocities[(k % 3) + 1][2])
        EXCEPT !.id = id]

\* Draw number j (from 0) of a generator in state rng
Draw(rng, j) == ((rng + j - 1) % RngPeriod) + 1

\* A slip in the loop test: while self.spawn_timer > spawn_interval
RECURSIVE MutSpawnCountStrict(_, _)
MutSpawnCountStrict(spawn_timer, spawn_interval) ==
    IF spawn_timer > spawn_interval
    THEN 1 + MutSpawnCountStrict(spawn_timer - spawn_interval, spawn_interval)
    ELSE 0

\* How often the body of "while self.spawn_timer >= spawn_interval:
\* self.spawn_timer -= spawn_interval; ..." runs
RECURSIVE SpawnCount(_, _)
SpawnCount(spawn_timer, spawn_interval) ==
    IF spawn_timer >= spawn_interval
    THEN 1 + SpawnCount(spawn_timer - spawn_interval, spawn_interval)
    ELSE 0

\* while self.spawn_timer >= spawn_interval: self.spawn_timer -=
\* spawn_interval; self.particles.append(Particle(px, py, pz)), for the n
\* runs of the loop body
SpawnLoop(m, spawn_interval, n) ==
    [m EXCEPT !.spawn_timer = @ - n * spawn_interval,
              !.particles = @ \o
                  [j \in 1..n |->
                      SpawnedParticle(m.kind,
                                      IF m.kind = "emitter" THEN 0 ELSE m.x,
                                      IF m.kind = "emitter" THEN 0 ELSE m.y,
                                      Draw(m.rng, j - 1), m.next_id + j - 1)],
              !.rng = Draw(m.rng, n),
              !.next_id = @ + n]

\* The position in list ps of the particle object id (0: not in the list)
RECURSIVE IndexOf(_, _, _)
IndexOf(ps, id, i) ==
    IF i > Len(ps) THEN 0
    ELSE IF ps[i].id = id THEN i ELSE IndexOf(ps, id, i + 1)

\* self.particles.remove(particle)
RemoveParticle(ps, id) ==
    [j \in 1..(Len(ps) - 1) |->
        IF j < IndexOf(ps, id, 1) THEN ps[j] ELSE ps[j + 1]]

\* A slip in the clone insertion: the new particle is not marked as cloned
RECURSIVE MutAppendClonesUnmarked(_, _, _)
MutAppendClonesUnmarked(ps, next_id, clones) ==
    IF clones = <<>> THEN ps
    ELSE MutAppendClonesUnmarked(
             Append(ps, [NewParticle(Head(clones).x, Head(clones).y,
                                     Head(clones).vx, Head(clones).vy)
                           EXCEPT !.id = next_id,
                                  !.radius = Head(clones).radius,
                                  !.mass = Head(clones).mass,
                                  !.age = Head(clones).age,
                                  !.lifetime = Head(clones).lifetime]),
             next_id + 1, Tail(clones))

\* The tycoon emitter, before it updates a particle: every entry of
\* particle._pending_clones becomes a new Particle at the end of the list,
\* marked as cloned; clones is the list of entries still to process
RECURSIVE AppendClones(_, _, _)
AppendClones(ps, next_id, clones) ==
    IF clones = <<>> THEN ps
    ELSE AppendClones(
             Append(ps, [NewParticle(Head(clones).x, Head(clones).y,
                                     Head(clones).vx, Head(clones).vy)
                           EXCEPT !.id = next_id,
                                  !.radius = Head(clones).radius,
                                  !.mass = Head(clones).mass,
                                  !.age = Head(clones).age,
                                  !.lifetime = Head(clones).lifetime,
                                  !.cloned = TRUE]),
             next_id + 1, Tail(clones))

\* Does this manager process _pending_clones?  Only the tycoon emitter does.
ProcessesClones(v, m) == v = "tycoon" /\ m.kind = "emitter"

\* A slip in the removal test: an exploding particle is kept in the list so
\* that its explosion can be drawn
MutSettle(ps, q) ==
    IF ~q.alive /\ ~q.exploding THEN RemoveParticle(ps, q.id)
    ELSE [ps EXCEPT ![IndexOf(ps, q.id, 1)] = q]

\* After particle.update(): if not particle.alive:
\* self.particles.remove(particle).  q is the particle after its update.
Settle(ps, q) ==
    IF ~q.alive THEN RemoveParticle(ps, q.id)
    ELSE [ps EXCEPT ![IndexOf(ps, q.id, 1)] = q]

\* The manager's list and id counter once the tycoon emitter has processed
\* the pending clones of particle p; every other manager leaves them alone
WithClones(v, m, p) ==
    IF ProcessesClones(v, m) /\ p.pending_clones # <<>>
    THEN [m EXCEPT !.particles =
                       AppendClones(
                           [@ EXCEPT ![IndexOf(@, p.id, 1)].pending_clones
                                        = <<>>],
                           m.next_id, p.pending_clones),
                   !.next_id = @ + Len(p.pending_clones)]
    ELSE m

\* The particle the loop hands to update(): its pending clones have been
\* cleared by the tycoon emitter
Handed(v, m, p) ==
    IF ProcessesClones(v, m) THEN [p EXCEPT !.pending_clones = <<>>] ELSE p

\* The ids of the particles of list ps, in order
Ids(ps) == [j \in 1..Len(ps) |-> ps[j].id]

\* One round of "for particle in self.particles[:]" for particle p: clones,
\* update (its outcome is out), removal.  st carries the manager, the
\* planets, the particles of the copy still to visit (todo) and what the
\* call reports (particles removed, clones inserted, clone events queued by
\* the update() calls, and whether one of those events came from a particle
\* already marked as cloned or together with another event, and whether a
\* clone was inserted without the mark, the particles that touched a planet
\* and were collected in their update(), and whether one of them had been
\* collected before).
UpdateOne(v, st, p, out) ==
    [mgr |-> [WithClones(v, st.mgr, p)
                 EXCEPT !.particles = Settle(@, out.part)],
     planets |-> out.planets,
     todo |-> Tail(st.todo),
     removed |-> st.removed + (IF out.part.alive THEN 0 ELSE 1),
     cloned |-> st.cloned + (WithClones(v, st.mgr, p).next_id
                             - st.mgr.next_id),
     emitted |-> st.emitted + Len(out.part.pending_clones)
                     - Len(Handed(v, st.mgr, p).pending_clones),
     again |-> \/ st.again
               \/ /\ p.cloned
                  /\ Len(out.part.pending_clones)
                         > Len(Handed(v, st.mgr, p).pending_clones)
               \/ Len(out.part.pending_clones)
                      > Len(Handed(v, st.mgr, p).pending_clones) + 1
               \/ p.cloned /\ ~out.part.cloned,
     unmarked |-> \/ st.unmarked
                  \/ \E j \in 1..Len(WithClones(v, st.mgr, p).particles) :
                        /\ WithClones(v, st.mgr, p).particles[j].id
                               >= st.mgr.next_id
                        /\ ~WithClones(v, st.mgr, p).particles[j].cloned,
     collected |-> st.collected + (IF out.hit # 0 THEN 1 ELSE 0),
     recollected |-> st.recollected \/ (out.hit # 0 /\ p.exploding)]

\* The particle object id of list ps
Object(ps, id) == ps[IndexOf(ps, id, 1)]

\* The rounds for the particles still to visit
RECURSIVE UpdateLoop(_, _, _, _)
UpdateLoop(v, st, dt, wls) ==
    IF st.todo = <<>> THEN st
    ELSE UpdateLoop(
             v,
             UpdateOne(v, st, Object(st.mgr.particles, Head(st.todo)),
                       ParticleUpdate(
                           v,
                           Handed(v, st.mgr,
                                  Object(st.mgr.particles, Head(st.todo))),
                           dt, st.planets, wls)),
             dt, wls)

\* ParticleEmitter.update / ParticleSpawner.update after the spawn loop: the
\* update loop over a copy of the list
ManagerLoops(v, m, dt, pls, wls) ==
    UpdateLoop(v, [mgr |-> m, planets |-> pls, todo |-> Ids(m.particles),
                   removed |-> 0, cloned |-> 0, emitted |-> 0,
                   again |-> FALSE, unmarked |-> FALSE,
                   collected |-> 0, recollected |-> FALSE],
               dt, wls)

\* ParticleEmitter.update / ParticleSpawner.update
ManagerUpdate(v, m, dt, pls, wls) ==
    ManagerLoops(v,
                 SpawnLoop([m EXCEPT !.spawn_timer = @ + dt * 1000],
                           Micro \div m.spawn_rate,
                           SpawnCount(m.spawn_timer + dt * 1000,
                                      Micro \div m.spawn_rate)),
                 dt, pls, wls)

---------------------------------------------------------------------------
\* Claims about the lifecycle of one particle (checked under Spec)

\* The call made last was particle.update
Updated == op.name = "update"

\* The age test of the revision let the particle start to fade in this call
LifetimePassed ==
    IF variant = "entities" THEN part.age > part.lifetime
    ELSE op.before.age >= op.before.lifetime

\* The fade timer of the revision has run out
FadeTimerOut ==
    IF variant = "entities" THEN part.fade_timer >= ENTITIES_FADE_TIME
    ELSE part.fade_timer <= 0

\* The explosion timer of the revision has run out
ExplosionTimerOut ==
    IF variant = "entities" THEN part.explosion_timer > ENTITIES_EXPLOSION_TIME
    ELSE part.explosion_timer <= 0

\* Particle p is at distance d from planet pl
AtDistance(p, pl, d) == Dist(pl.x - p.x, pl.y - p.y) = d

\* Particle p is within the contact distance of one of the planets pls
Touching(p, pls) ==
    \E i \in 1..Len(pls) :
        Dist(pls[i].x - p.x, pls[i].y - p.y) < pls[i].radius + p.radius

\* C1: in both revisions an update() call changes the state of a particle
\* only along Alive->Fading (age passes lifetime), Alive->Exploding (planet
\* contact), Fading->Dead and Exploding->Dead (timer expiry) and the forced
\* ->Dead of the world bound; never Fading->Exploding, Exploding->Fading,
\* Alive->Dead by planet contact in a single call, back to Alive or out of
\* Dead.  A call that takes Alive->Fading->Dead in one go (a frame time of a
\* second or more) is counted as following the edges.
C1_LifecycleEdges ==
    Updated =>
        LET from == State(op.before)
            to == State(part)
        IN  \/ from = to
            \/ from = "Alive" /\ to = "Fading" /\ LifetimePassed
            \/ from = "Alive" /\ to = "Exploding" /\ op.hit # 0
            \/ from = "Fading" /\ to = "Dead" /\ FadeTimerOut
            \/ from = "Exploding" /\ to = "Dead" /\ ExplosionTimerOut
            \/ from # "Dead" /\ to = "Dead" /\ op.hit = 0 /\ OutOfWorld(part)
            \/ /\ from = "Alive" /\ to = "Dead" /\ op.hit = 0
               /\ LifetimePassed /\ FadeTimerOut

\* C2: a particle that is Fading is Dead once the update() calls made since
\* it started to fade add up to one second, however small each frame time
\* is: no Fading particle is alive with a second or more behind it.
C2_FadeCompletes ==
    (part.alive /\ part.fading) => hist.fading_for < ENTITIES_FADE_TIME

\* C3: a particle that is not fading and touches a planet is Exploding (and
\* still there) after that call; while it is Exploding an update() call
\* changes neither position nor velocity and collects nothing, and it becomes
\* Dead only once the explosion timer has run out.
C3_ExplodingUntilTimerEnds ==
    Updated =>
        /\ (State(op.before) = "Alive" /\ op.hit # 0)
               => State(part) = "Exploding"
        /\ State(op.before) = "Exploding"
               => /\ part.x = op.before.x /\ part.y = op.before.y
                  /\ part.vx = op.before.vx /\ part.vy = op.before.vy
                  /\ op.hit = 0 /\ op.events = <<>>
                  /\ State(part) \in {"Exploding", "Dead"}
                  /\ State(part) = "Dead" => ExplosionTimerOut

\* C4: a live particle at distance planet.radius + particle.radius - 1 from a
\* planet is Exploding after the next update(), whatever its velocity, and
\* that call yields exactly one Collected event, of value 1.
C4_ContactOneUnitInside ==
    (/\ Updated
     /\ State(op.before) = "Alive"
     /\ \E i \in 1..Len(op.planets) :
            AtDistance(op.before, op.planets[i],
                       op.planets[i].radius + op.before.radius - Scale))
        => /\ State(part) = "Exploding"
           /\ Len(op.events) = 1
           /\ op.events[1].value = 1

\* C6: a particle that is not Dead never has both fading and exploding set.
C6_FadingXorExploding ==
    part.alive => ~(part.fading /\ part.exploding)

\* A fading particle within the contact distance of a planet has been
\* updated and is still fading
C6_Witness ==
    /\ Updated
    /\ op.before.alive /\ op.before.fading
    /\ Touching(op.before, op.planets)
    /\ part.alive /\ part.fading

---------------------------------------------------------------------------
\* SpecManager: an emitter or a spawner next to a planet, and the update()
\* calls the frame loop makes on it

MaxFrames == 4
MaxPopulation == 12

\* Frame times of the manager runs, in milliseconds
ManagerDtSet == {11, 17, 500}

\* Where the player puts the spawner (world x; y is 0): next to the planet
\* at the origin, or on its clone orbit
SpawnerPlaces == {70, 192}

\* World x of a second planet (y is 0) whose surface meets the clone orbit
\* of the planet at the origin
SecondPlanetPlace == 242

\* The planet at the origin: of the revision, in tycoon with or without the
\* clone orbit bought, and with a second planet on that orbit
ManagerPlanets(v) ==
    IF v = "entities" THEN {<<EntitiesPlanet(0, 0)>>}
    ELSE {<<NewPlanet(0, 0)>>, <<upgrade_clone_orbit(NewPlanet(0, 0))>>,
          <<upgrade_clone_orbit(NewPlanet(0, 0)),
            NewPlanet(SecondPlanetPlace * Scale, 0)>>}

InitManager ==
    /\ variant \in {"entities", "tycoon"}
    /\ planets \in ManagerPlanets(variant)
    /\ walls = <<>>
    /\ part = NoPart
    /\ \E seed \in 1..RngPeriod :
          \/ mgr = NewEmitter(seed)
          \/ \E x \in SpawnerPlaces :
                mgr = NewSpawner(variant, x * Scale, 0, seed)
    /\ op = NoOp
    /\ hist = [spawned |-> 0, clones |-> 0, events |-> 0]
    /\ calls = 0
    /\ game = NoGame

\* The number of entries in the _pending_clones of the particles i.. of ps
RECURSIVE PendingCount(_, _)
PendingCount(ps, i) ==
    IF i > Len(ps) THEN 0
    ELSE Len(ps[i].pending_clones) + PendingCount(ps, i + 1)

\* The number of particles in the list of manager m once the spawn loop of a
\* frame of dt milliseconds has run
AfterSpawn(m, dt) ==
    Len(m.particles)
        + (m.spawn_timer + dt * 1000) \div (Micro \div m.spawn_rate)

\* self.emitter.update(dt, ...) or spawner.update(dt, ...) with the frame
\* time dt; a run is followed while the population stays within
\* MaxPopulation
CallManagerUpdate ==
    /\ calls < MaxFrames
    /\ \E dt \in ManagerDtSet :
          LET res == ManagerUpdate(variant, mgr, dt, planets, walls)
          IN  /\ AfterSpawn(mgr, dt) <= MaxPopulation
              /\ mgr' = res.mgr
              /\ planets' = res.planets
              /\ op' = [name |-> "manager_update", dt |-> dt,
                        spawned |-> res.mgr.next_id - mgr.next_id - res.cloned,
                        removed |-> res.removed, cloned |-> res.cloned,
                        waiting |-> PendingCount(mgr.particles, 1),
                        emitted |-> res.emitted, again |-> res.again,
                        unmarked |-> res.unmarked,
                        timer |-> mgr.spawn_timer]
              /\ hist' = [spawned |-> hist.spawned + res.mgr.next_id
                                          - mgr.next_id - res.cloned,
                          clones |-> hist.clones + res.cloned,
                          events |-> hist.events + res.emitted]
    /\ calls' = calls + 1
    /\ UNCHANGED <<variant, walls, part, game>>

\* The spawn rate button of Game.handle_events: self.emitter.spawn_rate +=
\* 10 (core/game.py) or 5 (particle_tycoon.py), when the player has the
\* money; bought at most MaxRaises times
MaxRaises == 1
SpawnRateStep(v) == IF v = "entities" THEN 10 ELSE 5
RaiseSpawnRate ==
    /\ mgr.kind = "emitter"
    /\ mgr.spawn_rate < EMITTER_SPAWN_RATE + MaxRaises * SpawnRateStep(variant)
    /\ mgr' = [mgr EXCEPT !.spawn_rate = @ + SpawnRateStep(variant)]
    /\ op' = [name |-> "raise_spawn_rate"]
    /\ UNCHANGED <<variant, planets, walls, part, hist, calls, game>>

NextManager == CallManagerUpdate \/ RaiseSpawnRate

SpecManager == InitManager /\ [][NextManager]_vars

---------------------------------------------------------------------------
\* Claims about the population managers (checked under SpecManager)

\* C5: after ParticleEmitter.update() or ParticleSpawner.update() returns,
\* no particle with alive == False is left in the manager's collection,
\* whatever the interleaving of spawns, clone insertions and deaths.
C5_NoDeadLeft ==
    op.name = "manager_update" =>
        \A i \in 1..Len(mgr.particles) : mgr.particles[i].alive

\* An update() call in which particles were spawned, clones were inserted
\* and particles died, and which leaves particles in the collection
C5_Witness ==
    /\ op.name = "manager_update"
    /\ op.spawned > 0
    /\ op.cloned > 0
    /\ op.removed > 0
    /\ mgr.particles # <<>>

\* C17: every clone event a particle queues on crossing a clone orbit
\* becomes exactly one new particle in the collection of the manager that
\* owns the parent, emitter or spawner, also when the parent dies in the
\* call that queued the event.  A manager turns events into particles in
\* its next update(), so after every update() the clones inserted are as
\* many as the events that were waiting before it, and the events waiting
\* after it are the events queued in it: none older, none lost.
C17_CloneEventsBecomeParticles ==
    (variant = "tycoon" /\ op.name = "manager_update") =>
        /\ op.cloned = op.waiting
        /\ PendingCount(mgr.particles, 1) = op.emitted

---------------------------------------------------------------------------
\* SpecBounce: one particle next to one wall, no planets; the update() calls
\* of the frame loop carry it into the wall.

\* Frame times of the 60 Hz loop and of a short hitch
BounceDtSet == {17, 50}

\* Walls, in world units: along the x axis from left to right (normal
\* (0, -1)) and from right to left (normal (0, 1)), oblique (normal
\* (0.8, -0.6)), and of length 0
BounceWalls ==
    {<<-40, 0, 40, 0>>, <<40, 0, -40, 0>>, <<-30, -40, 30, 40>>,
     <<0, 0, 0, 0>>}

\* Where the particle starts, in world units: within its radius of the x
\* axis, or a tick or two away from it, on either side
BouncePlaces == {<<0, 2>>, <<0, -2>>, <<0, 8>>, <<0, -8>>}

\* Its velocity, in world units: along the x axis, and across it either way
BounceVelocities == {<<5, 0>>, <<0, 3>>, <<0, -3>>}

InitBounce ==
    /\ variant \in {"entities", "tycoon"}
    /\ planets = <<>>
    /\ \E w \in BounceWalls :
           walls = <<NewWall(w[1] * Scale, w[2] * Scale,
                             w[3] * Scale, w[4] * Scale)>>
    /\ \E at \in BouncePlaces, v \in BounceVelocities :
           part = NewParticle(at[1] * Scale, at[2] * Scale,
                              v[1] * Scale, v[2] * Scale)
    /\ mgr = NoMgr
    /\ op = NoOp
    /\ hist = NoHist
    /\ calls = 0
    /\ game = NoGame

\* particle.update(dt, planets, ..., walls) with the frame time dt
CallBounceUpdate ==
    /\ calls < MaxTicks
    /\ \E dt \in BounceDtSet : UpdateBy(dt)
    /\ calls' = calls + 1
    /\ UNCHANGED <<variant, walls, mgr, game>>

NextBounce == CallBounceUpdate

SpecBounce == InitBounce /\ [][NextBounce]_vars

---------------------------------------------------------------------------
\* Claims about the wall bounce (checked under SpecBounce)

\* The particle as the last update() had it on reaching the wall loop: aged,
\* pulled and moved, the walls not yet looked at
BeforeWalls == ParticleUpdate(variant, op.before, op.dt, op.planets, <<>>).part

\* The wall has two distinct endpoints
ProperWall(w) == w.x1 # w.x2 \/ w.y1 # w.y2

\* The last update() reached the wall loop
ReachedWalls == Updated /\ State(op.before) = "Alive" /\ BeforeWalls.alive

\* The last update() found the particle colliding with the wall
WallHit ==
    /\ ReachedWalls
    /\ check_collision(variant, TheWall, BeforeWalls.x, BeforeWalls.y,
                       BeforeWalls.radius)

\* Test points around a wall of length 0 at the origin, in model units
ZeroWallProbes == {-3 * Scale, 0, 1, 4 * Scale}

\* C12: a wall with p1 = p2 never reports a collision, for any test point
\* and any radius, and an update() against such a wall leaves the particle
\* with the velocity and the position it would have without the wall.
C12_ZeroLengthWall ==
    (Updated /\ ~ProperWall(TheWall)) =>
        /\ \A px \in ZeroWallProbes, py \in ZeroWallProbes,
              radius \in {Scale, PARTICLE_RADIUS * Scale} :
              ~check_collision(variant, TheWall, TheWall.x1 + px,
                               TheWall.y1 + py, radius)
        /\ ~WallHit
        /\ part.vx = BeforeWalls.vx /\ part.vy = BeforeWalls.vy
        /\ part.x = BeforeWalls.x /\ part.y = BeforeWalls.y

\* 0.8 * (v - 2 (v . n) n) for the velocity v = (vx, vy) and the unit normal
\* n in 1/NormScale
Reflected(vx, vy, n) ==
    LET dot == Div(vx * n[1] + vy * n[2], NormScale)
    IN  <<Div(8 * (vx - Div(2 * dot * n[1], NormScale)), 10),
          Div(8 * (vy - Div(2 * dot * n[2], NormScale)), 10)>>

\* C13: when update() finds the particle colliding with a wall, the new
\* velocity is 0.8 * (v - 2 (v . n) n) with n the unit normal of the wall:
\* the component along the wall is kept and the normal one reversed; for
\* v = (5, 0) and n = (0, 1) the new velocity is (4, 0).
C13_ReflectAboutNormal ==
    (WallHit /\ ProperWall(TheWall)) =>
        /\ <<part.vx, part.vy>> =
               Reflected(BeforeWalls.vx, BeforeWalls.vy, WallNormal(TheWall))
        /\ (/\ BeforeWalls.vx = 5 * Scale /\ BeforeWalls.vy = 0
            /\ WallNormal(TheWall) = <<0, NormScale>>)
               => (part.vx = 4 * Scale /\ part.vy = 0)

\* The side of wall w the point (x, y) is on: 1 where the normal points, -1
\* on the other side, 0 on the line
Side(w, x, y) ==
    Sign((x - w.x1) * WallNormal(w)[1] + (y - w.y1) * WallNormal(w)[2])

\* C19: right after update() has bounced the particle off a wall,
\* check_collision is false at its new position: it is at least its radius
\* away from the segment and on the side it came from, whichever side that
\* was.
C19_SeparatedAfterBounce ==
    (WallHit /\ ProperWall(TheWall)) =>
        /\ ~check_collision(variant, TheWall, part.x, part.y, part.radius)
        /\ ~TycoonCheckCollision(TheWall, part.x, part.y, part.radius)
        /\ Side(TheWall, op.before.x, op.before.y) # 0
               => Side(TheWall, part.x, part.y) =
                      Side(TheWall, op.before.x, op.before.y)

---------------------------------------------------------------------------
\* Claims about the flight of one particle (checked under Spec)

\* The last update() was made on a particle in state Alive with no planets
\* and no walls
FreeFlight ==
    /\ Updated
    /\ State(op.before) = "Alive"
    /\ op.planets = <<>> /\ walls = <<>>

\* C14: with no planets and no walls an update() of a particle in state
\* Alive leaves its velocity exactly as it was and adds dt to its age; the
\* particle leaves Alive for Fading no earlier than the call that takes its
\* age to lifetime and no later than the call after it (it is not Alive
\* after a call that it entered with its age at or beyond lifetime).
C14_FreeFlightUntilLifetime ==
    FreeFlight =>
        /\ part.vx = op.before.vx /\ part.vy = op.before.vy
        /\ part.age = op.before.age + op.dt
        /\ State(part) # "Alive" => part.age >= part.lifetime
        /\ State(part) = "Alive" => op.before.age < part.lifetime

\* A moving particle has entered Fading in free flight
C14_Witness ==
    /\ FreeFlight
    /\ State(part) = "Fading"
    /\ op.before.vx # 0

\* The particle the last update() was made on, as it would be in state
\* Alive at the start of its life: same place, same velocity
AsAlive(p) == [p EXCEPT !.fading = FALSE, !.fade_timer = 0, !.age = 0]

\* Where an Alive particle is after update() with no planets and no walls
Drifted(p, dt) == ParticleUpdate(variant, AsAlive(p), dt, <<>>, <<>>).part

\* C16: while a particle is Fading and its fade timer has not run out,
\* update() goes on integrating its position: with a non-zero velocity and
\* no planets or walls the position changes in every call, by the
\* displacement an Alive particle gets.
C16_FadingKeepsMoving ==
    (/\ Updated
     /\ State(op.before) = "Fading" /\ part.alive
     /\ op.planets = <<>> /\ walls = <<>>
     /\ (op.before.vx # 0 \/ op.before.vy # 0))
        => /\ part.x = Drifted(op.before, op.dt).x
           /\ part.y = Drifted(op.before, op.dt).y
           /\ (part.x # op.before.x \/ part.y # op.before.y)

\* Planet pl applies a non-zero gravitational force to particle p in an
\* update() of revision v: tycoon where the distance factor is positive
\* (force > 0), entities within the gravity distance handed to update() and
\* out of contact
Pulls(v, pl, p) ==
    LET distance == Dist(pl.x - p.x, pl.y - p.y)
    IN  /\ distance > 0
        /\ IF v = "tycoon" THEN Pulled(pl, distance)
           ELSE /\ distance < GAME_GRAVITY_DISTANCE * Scale
                /\ distance > pl.radius + p.radius

\* At least one planet applied a non-zero force in the last update()
GravityActed ==
    \E i \in 1..Len(op.planets) : Pulls(variant, op.planets[i], op.before)

\* C20: in every update() that is not ended by a planet collision, age stays
\* as it was if at least one planet applied a non-zero gravitational force
\* in that call and grows by exactly dt otherwise; age never decreases, and a
\* particle in state Alive below its lifetime that is pulled stays Alive.
C20_AgeSuppressedByGravity ==
    (/\ Updated
     /\ op.before.alive /\ ~op.before.exploding
     /\ part.alive /\ op.hit = 0)
        => /\ part.age = IF GravityActed THEN op.before.age
                         ELSE op.before.age + op.dt
           /\ part.age >= op.before.age
           /\ (/\ GravityActed /\ State(op.before) = "Alive"
               /\ op.before.age < op.before.lifetime)
                  => State(part) = "Alive"

---------------------------------------------------------------------------
\* SpecField: one particle in the field of planets the player has placed
\* around it: a pair of equal planets on opposite sides at the same distance,
\* or a planet with a clone orbit whose ring passes through the particle.

\* Frame times of the 60 Hz loop and of a hitch
FieldDtSet == {17, 500}

\* Distance from the particle to each planet of a pair, in world units:
\* inside three radii, inside the gravity distance, in the fade zone
PairDistances == {100, 200, 600}

\* Velocity of the particle, in model units: along the axis of the pair,
\* across it, and at rest
FieldVelocities == {<<2 * Scale, 0>>, <<0, Scale>>, <<0, 0>>}

\* Two planets of the revision at (-d, 0) and (d, 0)
PlanetPair(v, d) ==
    <<MakePlanet(v, "planet", -d * Scale, 0),
      MakePlanet(v, "planet", d * Scale, 0)>>

\* The pair after FieldUpgrades gravity upgrades of each planet
\* (particle_tycoon.py only)
FieldUpgrades == 5
UpgradedPair(d) ==
    <<Upgraded(PlanetPair("tycoon", d)[1], FieldUpgrades),
      Upgraded(PlanetPair("tycoon", d)[2], FieldUpgrades)>>

\* A planet whose clone orbit has been bought, placed so that its ring
\* passes through the origin (particle_tycoon.py only)
RingPlanet ==
    <<upgrade_clone_orbit(
          NewPlanet(NewPlanet(0, 0).clone_orbit_radius, 0))>>

InitField ==
    /\ variant \in {"entities", "tycoon"}
    /\ \/ \E d \in PairDistances : planets = PlanetPair(variant, d)
       \/ variant = "tycoon" /\ planets = RingPlanet
       \/ variant = "tycoon"
              /\ \E d \in PairDistances : planets = UpgradedPair(d)
    /\ walls = <<>>
    /\ \E v \in FieldVelocities : part = NewParticle(0, 0, v[1], v[2])
    /\ mgr = NoMgr
    /\ op = NoOp
    /\ hist = NoHist
    /\ calls = 0
    /\ game = NoGame

\* particle.update(dt, planets, ...) with the frame time dt
CallFieldUpdate ==
    /\ calls < MaxTicks
    /\ \E dt \in FieldDtSet : UpdateBy(dt)
    /\ calls' = calls + 1
    /\ UNCHANGED <<variant, walls, mgr, game>>

NextField == CallFieldUpdate

SpecField == InitField /\ [][NextField]_vars

---------------------------------------------------------------------------
\* Claims about forces and the clone orbit (checked under SpecField)

\* Planets a and b have the same mass, gravity distance and air resistance
\* and lie on opposite sides of particle p at the same distance
Symmetric(a, b, p) ==
    /\ a.mass = b.mass
    /\ a.gravity_distance = b.gravity_distance
    /\ a.radius = b.radius
    /\ variant = "tycoon"
           => a.air_resistance_intensity = b.air_resistance_intensity
    /\ a.x - p.x = -(b.x - p.x)
    /\ a.y - p.y = -(b.y - p.y)

\* C15: a moving particle exactly midway between two planets of equal mass,
\* gravity distance and air resistance, both within gravity range, has the
\* same velocity after one update() as before it.
C15_SymmetricPairCancels ==
    (/\ Updated
     /\ State(op.before) = "Alive" /\ op.hit = 0
     /\ Len(op.planets) = 2
     /\ Symmetric(op.planets[1], op.planets[2], op.before)
     /\ Pulls(variant, op.planets[1], op.before)
     /\ Pulls(variant, op.planets[2], op.before)
     /\ (op.before.vx # 0 \/ op.before.vy # 0))
        => (part.vx = op.before.vx /\ part.vy = op.before.vy)

\* Particle p is on the clone orbit ring of planet pl (within the tolerance
\* of 3 units)
OnRing(p, pl) ==
    /\ pl.has_clone_orbit
    /\ Abs(Dist(pl.x - p.x, pl.y - p.y) - pl.clone_orbit_radius) <= 3 * Scale

\* C18: update() of a particle at rest on the clone orbit ring of a planet
\* emits no clone event and leaves the cloning state of the particle as it
\* was, so that the particle can be cloned when it crosses a ring later.
C18_RestingOnRingIsNoOp ==
    (/\ variant = "tycoon"
     /\ Updated
     /\ State(op.before) \in {"Alive", "Fading"}
     /\ op.before.vx = 0 /\ op.before.vy = 0
     /\ op.planets # <<>>
     /\ OnRing(op.before, op.planets[1]))
        => /\ part.pending_clones = op.before.pending_clones
           /\ part.cloned = op.before.cloned

\* ---------------------------------------------------------------------------
\* The air resistance ramp, under SpecField

\* The gravity attenuation of the planet at a distance, in 1/AirScale
GravityRamp(pl, distance) ==
    Div(AirScale * DistanceFactor(distance, pl.gravity_distance),
        FADE_ZONE * Scale)

\* The planets of the last update with the distance of the particle to each
FieldDistances ==
    {<<op.planets[i], Dist(op.planets[i].x - op.before.x,
                           op.planets[i].y - op.before.y)>> :
        i \in 1..Len(op.planets)}

\* C21: in an update of a live particle, the air strength of each planet at
\* the particle's distance equals the gravity attenuation at that distance
\* (full inside gravity_distance, a linear fall to 0 over the next 200 units),
\* and the strength just inside gravity_distance differs from the strength at
\* gravity_distance by no more than one hundredth.
C21_AirStrengthRamp ==
    (variant = "tycoon" /\ Updated /\ op.before.alive /\ ~op.before.exploding)
        => \A pd \in FieldDistances :
              /\ TycoonAirStrength(pd[1], pd[2]) = GravityRamp(pd[1], pd[2])
              /\ Abs(TycoonAirStrength(pd[1], pd[1].gravity_distance)
                     - TycoonAirStrength(pd[1], pd[1].gravity_distance - 1))
                    <= AirScale \div 100

\* The two planets of a list in the other order
Swapped(pls) == <<pls[2], pls[1]>>

\* The particle that the last update would have handed back had the planets
\* been listed in the other order
OtherOrder ==
    ParticleUpdate(variant, op.before, op.dt, Swapped(op.planets), walls).part

\* C22: an update() of a live particle within range of two planets and
\* touching neither gives the same velocity whichever of the two planets
\* comes first in the planet list.
C22_PlanetOrderIrrelevant ==
    (/\ Updated
     /\ State(op.before) = "Alive" /\ op.hit = 0
     /\ Len(op.planets) = 2
     /\ Pulls(variant, op.planets[1], op.before)
     /\ Pulls(variant, op.planets[2], op.before))
        => (OtherOrder.vx = part.vx /\ OtherOrder.vy = part.vy)

\* ---------------------------------------------------------------------------
\* The displacement of a free particle, under Spec

\* The particle that update(dt) hands back for the particle of the last call
\* with no planets and no walls
FreeUpdate(dt) == ParticleUpdate(variant, op.before, dt, <<>>, <<>>).part

\* C23: for a live particle with no planets and no walls that stays alive,
\* update(0) leaves the position unchanged and update(2*dt) moves the
\* particle twice as far as update(dt) (to within one model unit of rounding).
C23_DisplacementLinearInDt ==
    (/\ Updated
     /\ Len(op.planets) = 0 /\ Len(walls) = 0
     /\ State(op.before) = "Alive"
     /\ op.before.age + 2 * op.dt < op.before.lifetime)
        => /\ FreeUpdate(0).x = op.before.x
           /\ FreeUpdate(0).y = op.before.y
           /\ Abs((FreeUpdate(2 * op.dt).x - op.before.x)
                    - 2 * (part.x - op.before.x)) <= 1
           /\ Abs((FreeUpdate(2 * op.dt).y - op.before.y)
                    - 2 * (part.y - op.before.y)) <= 1

\* ---------------------------------------------------------------------------
\* Clone events over the life of a particle, under SpecManager

\* C24: a particle emits at most one clone event in its life: no update()
\* queues an event on a particle already marked as cloned (by an earlier ring
\* crossing or by being created as a clone) or queues two events at once, the
\* mark is never taken back, every particle created as a clone carries it,
\* and so the clone events queued and the clones created since the start
\* never exceed the particles the manager has spawned.
C24_OneCloneEventPerLife ==
    (variant = "tycoon" /\ op.name = "manager_update")
        => /\ ~op.again
           /\ ~op.unmarked
           /\ \A i \in 1..Len(mgr.particles) :
                 /\ Len(mgr.particles[i].pending_clones) <= 1
                 /\ mgr.particles[i].pending_clones # <<>>
                        => mgr.particles[i].cloned
           /\ hist.events <= hist.spawned
           /\ hist.clones <= hist.events

\* A clone has been made from the event of a ring crossing, more particles
\* than clones have been spawned, and a marked particle is on a ring with
\* no event waiting on it
C24_Witness ==
    /\ variant = "tycoon" /\ op.name = "manager_update"
    /\ hist.clones > 0
    /\ hist.spawned > hist.clones
    /\ \E i \in 1..Len(mgr.particles) :
          /\ mgr.particles[i].cloned
          /\ mgr.particles[i].pending_clones = <<>>
          /\ \E j \in 1..Len(planets) : OnRing(mgr.particles[i], planets[j])

\* ---------------------------------------------------------------------------
\* The spawn timer, under SpecManager

\* spawn_interval = 1.0 / self.spawn_rate, in microseconds
SpawnInterval(m) == Micro \div m.spawn_rate

\* C25: after every update() of an emitter or spawner, 0 <= spawn_timer <
\* 1 / spawn_rate, and the particles spawned in the call are as many as the
\* whole spawn intervals in (spawn_timer before the call + dt), also when the
\* spawn rate was raised since the call before.
C25_SpawnTimerWithinInterval ==
    op.name = "manager_update"
        => /\ 0 <= mgr.spawn_timer
           /\ mgr.spawn_timer < SpawnInterval(mgr)
           /\ op.spawned = (op.timer + op.dt * 1000) \div SpawnInterval(mgr)

\* An update() of the emitter after its spawn rate was raised, entered with
\* a spawn_timer that is no longer below the interval, in which particles
\* were spawned
C25_Witness ==
    /\ op.name = "manager_update"
    /\ mgr.kind = "emitter"
    /\ mgr.spawn_rate > EMITTER_SPAWN_RATE
    /\ op.timer >= SpawnInterval(mgr)
    /\ op.spawned > 1

\* ---------------------------------------------------------------------------
\* SpecBorder: a spawner at the world limit

\* Where the player puts the spawner (world x; y is 0): just inside or just
\* outside the world limit
BorderPlaces == {WORLD_LIMIT - 30, WORLD_LIMIT + 30}

\* World x of a planet placed beyond the world limit (y is 0)
BorderPlanetPlace == WORLD_LIMIT + 60

\* No planet, or a planet of the revision beyond the world limit
BorderPlanets(v) ==
    {<<>>, <<MakePlanet(v, "planet", BorderPlanetPlace * Scale, 0)>>}

InitBorder ==
    /\ variant \in {"entities", "tycoon"}
    /\ planets \in BorderPlanets(variant)
    /\ walls = <<>>
    /\ part = NoPart
    /\ \E seed \in 1..RngPeriod :
          \E x \in BorderPlaces :
             mgr = NewSpawner(variant, x * Scale, 0, seed)
    /\ op = NoOp
    /\ hist = [spawned |-> 0, clones |-> 0, events |-> 0]
    /\ calls = 0
    /\ game = NoGame

NextBorder == CallManagerUpdate

SpecBorder == InitBorder /\ [][NextBorder]_vars

\* C26: every particle left in the collection of a manager after its
\* update() lies inside the world limit, whether alive, fading or exploding
\* (a particle beyond the limit after update() is dead, and dead particles
\* are removed).
C26_InsideWorldLimit ==
    op.name = "manager_update"
        => \A i \in 1..Len(mgr.particles) : ~OutOfWorld(mgr.particles[i])

\* ---------------------------------------------------------------------------
\* Collections and upgrades interleaved, under SpecPlanet

\* C30: whatever the sequence of collect_particle() and upgrade_gravity()
\* calls on a planet, neither call leaves the planet with less mass or a
\* shorter gravity_distance than it had just before the call.
C30_NeverWeaker ==
    op.name \in {"collect_particle", "upgrade_gravity"}
        => /\ ThePlanet.mass >= op.before.mass
           /\ ThePlanet.gravity_distance >= op.before.gravity_distance

\* ---------------------------------------------------------------------------
\* Game: money, the clicks of handle_events and update().  Money is kept in
\* 1/Scale units (a wall of core/game.py costs half its length).

START_MONEY == 100          \* self.money = 100
PLANET_BASE_COST == 40      \* self.planet_cost
DWARF_PLANET_COST == 15     \* self.dwarf_planet_cost
SPAWNER_COST == 200         \* self.spawner_cost
SPAWN_RATE_COST == 100      \* self.spawn_rate_cost
TEST_MONEY == 100           \* the test money button of the settings panel
MIN_WALL_LENGTH == 10       \* get_wall_cost: shorter walls cost 0

\* Game.__init__
NewGame(seed) ==
    [money |-> START_MONEY * Scale,
     planet_cost |-> PLANET_BASE_COST,
     dwarf_planet_cost |-> DWARF_PLANET_COST,
     spawner_cost |-> SPAWNER_COST,
     spawn_rate_cost |-> SPAWN_RATE_COST,
     total_particles_collected |-> 0,
     emitter |-> NewEmitter(seed),
     spawners |-> <<>>,
     placing |-> "none",
     wall_start_pos |-> <<>>,
     selected_planet |-> 0]

\* The world a click or a frame works on: the Game with its planets and walls
World(g, pls, wls) == [game |-> g, planets |-> pls, walls |-> wls]

\* The cost the Game asks for the thing a tool places
ToolCost(g, tool) ==
    CASE tool = "planet" -> g.planet_cost
      [] tool = "dwarf" -> g.dwarf_planet_cost
      [] tool = "spawner" -> g.spawner_cost

\* particle_tycoon.py select_tool (hotbar click or hotkey): the placement
\* mode is entered without a look at the money.  core/game.py
\* handle_ui_click (buy buttons): planet, dwarf planet and spawner mode are
\* entered only with money >= cost, wall mode always.
select_tool(v, g, tool) ==
    IF v = "tycoon"
    THEN [g EXCEPT !.placing = tool, !.wall_start_pos = <<>>,
                   !.selected_planet = 0]
    ELSE IF tool = "wall"
         THEN [g EXCEPT !.placing = tool, !.wall_start_pos = <<>>]
         ELSE IF g.money >= ToolCost(g, tool) * Scale
              THEN [g EXCEPT !.placing = tool]
              ELSE g

\* The index of the first planet under the cursor (0: none).  tycoon:
\* distance <= visual radius; entities: distance < radius + 10
RECURSIVE PlanetAt(_, _, _, _, _)
PlanetAt(v, pls, x, y, i) ==
    IF i > Len(pls) THEN 0
    ELSE IF \/ v = "tycoon"
               /\ Dist(x - pls[i].x, y - pls[i].y) <= pls[i].radius
            \/ v = "entities"
               /\ Dist(x - pls[i].x, y - pls[i].y)
                      < pls[i].radius + 10 * Scale
         THEN i
         ELSE PlanetAt(v, pls, x, y, i + 1)

\* self.planets.append(Planet(world_x, world_y)); self.money -= the cost;
\* tycoon: the cost of the next one is int(cost * 1.15) (dwarf: 1.2)
PlacePlanetOfKind(v, w, kind, x, y) ==
    [w EXCEPT !.planets = Append(@, MakePlanet(v, kind, x, y)),
              !.game.money = @ - ToolCost(w.game, kind) * Scale,
              !.game.planet_cost =
                  IF v = "tycoon" /\ kind = "planet"
                  THEN (@ * 115) \div 100 ELSE @,
              !.game.dwarf_planet_cost =
                  IF v = "tycoon" /\ kind = "dwarf"
                  THEN (@ * 12) \div 10 ELSE @,
              !.game.placing = "none"]

\* A slip in the spawner placement: the money test left out
MutPlaceSpawnerUnpaid(v, w, x, y) ==
    [w EXCEPT !.game.spawners =
                  Append(@, NewSpawner(v, x, y, w.game.emitter.rng)),
              !.game.money = @ - w.game.spawner_cost * Scale,
              !.game.spawner_cost =
                  IF v = "tycoon" THEN (@ * 125) \div 100 ELSE @,
              !.game.placing = "none"]

\* A click in spawner mode: with money >= spawner_cost,
\* self.spawners.append(ParticleSpawner(world_x, world_y)); self.money -=
\* self.spawner_cost; tycoon: spawner_cost = int(spawner_cost * 1.25).  The
\* spawner draws from the random generator the emitter draws from.
PlaceSpawner(v, w, x, y) ==
    IF w.game.money >= w.game.spawner_cost * Scale
    THEN [w EXCEPT !.game.spawners =
                  Append(@, NewSpawner(v, x, y, w.game.emitter.rng)),
                   !.game.money = @ - w.game.spawner_cost * Scale,
                   !.game.spawner_cost =
                       IF v = "tycoon" THEN (@ * 125) \div 100 ELSE @,
                   !.game.placing = "none"]
    ELSE w

\* The price of a wall from the start position to (x, y), in 1/Scale money.
\* tycoon get_wall_cost: max(1, int(length * 0.5)), 0 below 10 units;
\* entities: wall_length * self.wall_cost_per_unit
WallCost(v, start, x, y) ==
    IF v = "tycoon"
    THEN IF Dist(x - start[1], y - start[2]) >= MIN_WALL_LENGTH * Scale
         THEN Max(1, Dist(x - start[1], y - start[2]) \div (2 * Scale)) * Scale
         ELSE 0
    ELSE Dist(x - start[1], y - start[2]) \div 2

\* A click in wall mode: the first sets the start position, the second
\* places the wall if the player can pay for it (tycoon: and it costs
\* something; otherwise the start position is forgotten)
PlaceWall(v, w, x, y) ==
    IF w.game.wall_start_pos = <<>>
    THEN [w EXCEPT !.game.wall_start_pos = <<x, y>>]
    ELSE IF /\ v = "tycoon" => WallCost(v, w.game.wall_start_pos, x, y) > 0
            /\ w.game.money >= WallCost(v, w.game.wall_start_pos, x, y)
         THEN [w EXCEPT !.walls =
                            Append(@, NewWall(w.game.wall_start_pos[1],
                                              w.game.wall_start_pos[2], x, y)),
                        !.game.money =
                            @ - WallCost(v, w.game.wall_start_pos, x, y),
                        !.game.placing = "none",
                        !.game.wall_start_pos = <<>>]
         ELSE IF v = "tycoon"
              THEN [w EXCEPT !.game.wall_start_pos = <<>>]
              ELSE w

\* The planet under the cursor becomes the selected planet, or none is
SelectPlanet(v, w, x, y) ==
    [w EXCEPT !.game.selected_planet = PlanetAt(v, w.planets, x, y, 1)]

\* particle_tycoon.py handle_events, first chain of a left click: placement
\* by the mode, or with no mode the test money button of the settings panel
TycoonPlacement(w, target, x, y) ==
    CASE w.game.placing = "planet" ->
             IF /\ can_place_planet("tycoon", w.planets, x, y)
                /\ w.game.money >= w.game.planet_cost * Scale
             THEN PlacePlanetOfKind("tycoon", w, "planet", x, y)
             ELSE w
      [] w.game.placing = "wall" -> PlaceWall("tycoon", w, x, y)
      [] w.game.placing = "spawner" -> PlaceSpawner("tycoon", w, x, y)
      [] w.game.placing = "dwarf" ->
             IF /\ can_place_planet("tycoon", w.planets, x, y)
                /\ w.game.money >= w.game.dwarf_planet_cost * Scale
             THEN PlacePlanetOfKind("tycoon", w, "dwarf", x, y)
             ELSE w
      [] w.game.placing = "none" ->
             IF target = "test_money"
             THEN [w EXCEPT !.game.money = @ + TEST_MONEY * Scale]
             ELSE w

\* if self.selected_planet and self.money >= upgrade_cost: self.money -=
\* upgrade_cost; self.selected_planet.upgrade_gravity()
BuyGravity(w) ==
    IF /\ w.game.selected_planet # 0
       /\ w.game.money
              >= w.planets[w.game.selected_planet].upgrade_cost * Scale
    THEN [w EXCEPT !.game.money =
                       @ - w.planets[w.game.selected_planet].upgrade_cost
                               * Scale,
                   !.planets[w.game.selected_planet] = upgrade_gravity(@)]
    ELSE w

\* if self.selected_planet and not has_clone_orbit and self.money >=
\* clone_orbit_cost: self.money -= clone_orbit_cost; upgrade_clone_orbit()
BuyCloneOrbit(w) ==
    IF /\ w.game.selected_planet # 0
       /\ ~w.planets[w.game.selected_planet].has_clone_orbit
       /\ w.game.money
              >= w.planets[w.game.selected_planet].clone_orbit_cost * Scale
    THEN [w EXCEPT !.game.money =
                       @ - w.planets[w.game.selected_planet].clone_orbit_cost
                               * Scale,
                   !.planets[w.game.selected_planet] = upgrade_clone_orbit(@)]
    ELSE w

\* The spawn rate button: with money >= spawn_rate_cost the emitter spawns
\* 5 (core/game.py: 10) particles per second more and the cost grows by
\* 40 % (50 %)
BuySpawnRate(v, w) ==
    IF w.game.money >= w.game.spawn_rate_cost * Scale
    THEN [w EXCEPT !.game.money = @ - w.game.spawn_rate_cost * Scale,
                   !.game.emitter.spawn_rate = @ + SpawnRateStep(v),
                   !.game.spawn_rate_cost =
                       IF v = "tycoon" THEN (@ * 14) \div 10
                       ELSE (@ * 15) \div 10]
    ELSE w

\* particle_tycoon.py handle_events, second chain of the same click: the
\* upgrade buttons, or else the planet under the cursor is selected
TycoonButtons(w, target, x, y) ==
    CASE target = "gravity" -> BuyGravity(w)
      [] target = "clone_orbit" -> BuyCloneOrbit(w)
      [] target = "spawn_rate" -> BuySpawnRate("tycoon", w)
      [] OTHER -> SelectPlanet("tycoon", w, x, y)

\* core/game.py handle_events: handle_ui_click (the spawn rate button), or
\* else placement by the mode when the money is there, or else selection
EntitiesClick(w, target, x, y) ==
    IF target = "spawn_rate" THEN BuySpawnRate("entities", w)
    ELSE IF /\ w.game.placing \in {"planet", "dwarf"}
            /\ w.game.money >= ToolCost(w.game, w.game.placing) * Scale
         THEN PlacePlanetOfKind("entities", w, w.game.placing, x, y)
         ELSE IF /\ w.game.placing = "spawner"
                 /\ w.game.money >= w.game.spawner_cost * Scale
              THEN PlaceSpawner("entities", w, x, y)
              ELSE IF w.game.placing = "wall"
                   THEN PlaceWall("entities", w, x, y)
                   ELSE SelectPlanet("entities", w, x, y)

\* The world when the placement part of a left click is done (core/game.py
\* has one chain only)
AfterPlacement(v, w, target, x, y) ==
    IF v = "tycoon" THEN TycoonPlacement(w, target, x, y) ELSE w

\* One left click of handle_events on target at world position (x, y)
LeftClick(v, w, target, x, y) ==
    IF v = "tycoon"
    THEN TycoonButtons(TycoonPlacement(w, target, x, y), target, x, y)
    ELSE EntitiesClick(w, target, x, y)

\* What a frame has done so far: the Game, the planets, the walls, the
\* particles collected in it (by_emitter: those of the emitter) and whether
\* one was collected a second time
FrameAfter(w, res) ==
    [game |-> [w.game EXCEPT !.emitter = res.mgr],
     planets |-> res.planets, walls |-> w.walls,
     collected |-> res.collected, by_emitter |-> res.collected,
     recollected |-> res.recollected]

\* self.emitter.update(dt, self.planets, ..., self.walls)
RunEmitter(v, w, dt) ==
    FrameAfter(w, ManagerUpdate(v, w.game.emitter, dt, w.planets, w.walls))

\* The frame after the update() of spawner i, whose outcome is res
SpawnerFrame(fr, i, res) ==
    [fr EXCEPT !.game.spawners[i] = res.mgr,
               !.planets = res.planets,
               !.collected = @ + res.collected,
               !.recollected = @ \/ res.recollected]

\* for spawner in self.spawners: spawner.update(dt, self.planets, ...)
RECURSIVE RunSpawners(_, _, _, _)
RunSpawners(v, fr, dt, i) ==
    IF i > Len(fr.game.spawners) THEN fr
    ELSE RunSpawners(v,
                     SpawnerFrame(fr, i,
                                  ManagerUpdate(v, fr.game.spawners[i], dt,
                                                fr.planets, fr.walls)),
                     dt, i + 1)

\* for planet in self.planets: planet.update(dt, is_hovered); the planets of
\* src/entities keep no timer that the model follows
RunPlanets(v, fr, dt) ==
    IF v = "tycoon"
    THEN [fr EXCEPT !.planets =
                        [i \in 1..Len(@) |-> planet_update(@[i], dt, FALSE)]]
    ELSE fr

\* sum(planet.particles_collected for planet in self.planets)
RECURSIVE SumCollected(_, _)
SumCollected(pls, i) ==
    IF i > Len(pls) THEN 0
    ELSE pls[i].particles_collected + SumCollected(pls, i + 1)

\* The _pending_clones entries of the particles of the spawners i..
RECURSIVE SpawnersPending(_, _)
SpawnersPending(sps, i) ==
    IF i > Len(sps) THEN 0
    ELSE PendingCount(sps[i].particles, 1) + SpawnersPending(sps, i + 1)

\* particle._pending_clones.clear() for the particles of a manager
ClearPending(m) ==
    [m EXCEPT !.particles =
                  [j \in 1..Len(@) |-> [@[j] EXCEPT !.pending_clones = <<>>]]]

\* A slip in the crediting of core/game.py: the particles of the spawners
\* are not looked at
MutCreditEmitterOnly(v, fr) ==
    IF v = "tycoon"
    THEN [fr EXCEPT !.game.money =
                        @ + (SumCollected(fr.planets, 1)
                                - fr.game.total_particles_collected) * Scale,
                    !.game.total_particles_collected =
                        SumCollected(fr.planets, 1)]
    ELSE [fr EXCEPT !.game.money =
                        @ + PendingCount(fr.game.emitter.particles, 1) * Scale,
                    !.game.emitter = ClearPending(@)]

\* The money of a frame.  particle_tycoon.py: self.money +=
\* sum(planet.particles_collected) - self.total_particles_collected.
\* core/game.py: money_earned += clone_data['value'] for every entry of the
\* _pending_clones of the particles of the emitter and of the spawners,
\* which are cleared.
Credit(v, fr) ==
    IF v = "tycoon"
    THEN [fr EXCEPT !.game.money =
                        @ + (SumCollected(fr.planets, 1)
                                - fr.game.total_particles_collected) * Scale,
                    !.game.total_particles_collected =
                        SumCollected(fr.planets, 1)]
    ELSE [fr EXCEPT !.game.money =
                        @ + (PendingCount(fr.game.emitter.particles, 1)
                                + SpawnersPending(fr.game.spawners, 1)) * Scale,
                    !.game.emitter = ClearPending(@),
                    !.game.spawners =
                        [i \in 1..Len(@) |-> ClearPending(@[i])]]

\* Game.update(dt)
Game_update(v, w, dt) ==
    Credit(v, RunPlanets(v, RunSpawners(v, RunEmitter(v, w, dt), dt, 1), dt))

\* ---------------------------------------------------------------------------
\* SpecGame: clicks and frames of one Game

MaxClicks == 3
MaxGameFrames == 2
MaxGamePopulation == 24

\* Frame times in milliseconds: a short frame, and one long enough for a
\* spawner of the revision to spawn
GameDtSet(v) == IF v = "entities" THEN {13, 200} ELSE {13, 50}

\* The state of the random generator at the start: the first draw puts a
\* particle in contact with a planet at the origin
GameSeeds == {4}

\* World positions of the clicks on the world
ClickPlaces == {<<0, 0>>, <<70, 0>>}

\* The world position under the cursor when it is on a button (the camera
\* decides which)
ButtonPlace == <<-200, -150>>

\* The world positions a click on target can have
PlacesOf(target) == IF target = "world" THEN ClickPlaces ELSE {ButtonPlace}

\* What the cursor is on: nothing but the world, or a button
ClickTargets(v) ==
    IF v = "tycoon"
    THEN {"world", "gravity", "clone_orbit", "spawn_rate", "test_money"}
    ELSE {"world", "spawn_rate"}

\* What the player of a core/game.py Game in progress has earned before
\* (particle_tycoon.py has the test money button for it)
EarnedBefore == 200

\* A hotbar click or buy button, and a left click on target at a position
ToolMove(tool) ==
    [kind |-> "tool", tool |-> tool, target |-> "none", pos |-> <<0, 0>>]
ClickMove(target, pos) ==
    [kind |-> "click", tool |-> "none", target |-> target, pos |-> pos]

\* The world after one move of the player
Play(v, w, m) ==
    IF m.kind = "tool"
    THEN [w EXCEPT !.game = select_tool(v, @, m.tool)]
    ELSE LeftClick(v, w, m.target, m.pos[1] * Scale, m.pos[2] * Scale)

\* The world after the moves, one after the other
RECURSIVE PlayAll(_, _, _)
PlayAll(v, w, moves) ==
    IF moves = <<>> THEN w
    ELSE PlayAll(v, Play(v, w, Head(moves)), Tail(moves))

\* How a Game has been played before a run starts: not at all, or with
\* money for it (two clicks on the test money button, or earned) a planet
\* at the origin and a spawner next to it, or a dwarf planet at the origin,
\* selected and (tycoon) upgraded twice
TestMoneyTwice ==
    <<ClickMove("test_money", ButtonPlace),
      ClickMove("test_money", ButtonPlace)>>
PlanetAndSpawner ==
    <<ToolMove("planet"), ClickMove("world", <<0, 0>>),
      ToolMove("spawner"), ClickMove("world", <<70, 0>>)>>
DwarfPlaced == <<ToolMove("dwarf"), ClickMove("world", <<0, 0>>)>>
DwarfUpgraded ==
    DwarfPlaced \o <<ClickMove("gravity", ButtonPlace),
                     ClickMove("gravity", ButtonPlace)>>
Opening(earned, moves) == [earned |-> earned, moves |-> moves]
Openings(v) ==
    IF v = "tycoon"
    THEN {Opening(0, <<>>),
          Opening(0, TestMoneyTwice \o PlanetAndSpawner),
          Opening(0, TestMoneyTwice \o DwarfUpgraded)}
    ELSE {Opening(0, <<>>),
          Opening(EarnedBefore, PlanetAndSpawner),
          Opening(EarnedBefore, DwarfPlaced)}

\* The start of a run is the world w
StartsAs(w) ==
    /\ game = w.game
    /\ planets = w.planets
    /\ walls = w.walls

InitGame ==
    /\ variant \in {"entities", "tycoon"}
    /\ part = NoPart
    /\ mgr = NoMgr
    /\ op = NoOp
    /\ hist = [clicks |-> 0]
    /\ calls = 0
    /\ \E seed \in GameSeeds, o \in Openings(variant) :
          StartsAs(PlayAll(variant,
                           World([NewGame(seed) EXCEPT
                                      !.money = @ + o.earned * Scale],
                                 <<>>, <<>>),
                           o.moves))

\* A hotbar click or hotkey (tycoon), a buy button (entities)
CallSelectTool ==
    /\ hist.clicks < MaxClicks
    /\ \E tool \in {"planet", "dwarf", "spawner", "wall"} :
          game' = select_tool(variant, game, tool)
    /\ op' = [name |-> "select_tool", money |-> game.money]
    /\ hist' = [clicks |-> hist.clicks + 1]
    /\ UNCHANGED <<variant, planets, walls, part, mgr, calls>>

\* The world and the record of the call after a left click; mid is the
\* money between the placement and the buttons
Clicked(w, mid, target) ==
    /\ game' = w.game
    /\ planets' = w.planets
    /\ walls' = w.walls
    /\ op' = [name |-> "left_click", target |-> target,
              money |-> game.money, mid |-> mid, planets |-> planets,
              selected_planet |-> game.selected_planet,
              placing |-> game.placing]

\* A left click of handle_events
CallLeftClick ==
    /\ hist.clicks < MaxClicks
    /\ \E target \in ClickTargets(variant) : \E pos \in PlacesOf(target) :
          Clicked(LeftClick(variant, World(game, planets, walls), target,
                            pos[1] * Scale, pos[2] * Scale),
                  AfterPlacement(variant, World(game, planets, walls), target,
                                 pos[1] * Scale, pos[2] * Scale).game.money,
                  target)
    /\ hist' = [clicks |-> hist.clicks + 1]
    /\ UNCHANGED <<variant, part, mgr, calls>>

\* The particles of the spawners i.. once their spawn loops have run
RECURSIVE SpawnersAfterSpawn(_, _, _)
SpawnersAfterSpawn(sps, dt, i) ==
    IF i > Len(sps) THEN 0
    ELSE AfterSpawn(sps[i], dt) + SpawnersAfterSpawn(sps, dt, i + 1)

\* The world and the record of the call after a frame
Framed(fr, dt) ==
    /\ game' = fr.game
    /\ planets' = fr.planets
    /\ op' = [name |-> "game_update", dt |-> dt, money |-> game.money,
              collected |-> fr.collected, by_emitter |-> fr.by_emitter,
              recollected |-> fr.recollected]

\* With walls in the world a run is followed while the emitter's draws are
\* the points near the origin (the wall test of a particle thousands of
\* units away is outside the integers the model computes with)
InWallRange(g, wls, dt) ==
    \/ wls = <<>>
    \/ g.emitter.next_id
           + SpawnCount(g.emitter.spawn_timer + dt * 1000,
                        Micro \div g.emitter.spawn_rate)
           <= Len(EmitterPoints)

\* self.update(dt) of the main loop; a run is followed while the particles
\* stay within MaxGamePopulation
CallGameUpdate ==
    /\ calls < MaxGameFrames
    /\ \E dt \in GameDtSet(variant) :
          /\ AfterSpawn(game.emitter, dt)
                 + SpawnersAfterSpawn(game.spawners, dt, 1)
                 <= MaxGamePopulation
          /\ InWallRange(game, walls, dt)
          /\ Framed(Game_update(variant, World(game, planets, walls), dt), dt)
    /\ calls' = calls + 1
    /\ UNCHANGED <<variant, walls, part, mgr, hist>>

NextGame == CallSelectTool \/ CallLeftClick \/ CallGameUpdate

SpecGame == InitGame /\ [][NextGame]_vars

\* ---------------------------------------------------------------------------
\* Claims about the money of the Game (checked under SpecGame)

\* C27: each particle is collected at most once in its life, and the money
\* at the end of a Game.update() is the money at its start plus 1 for every
\* particle collected in it, of the emitter and of the spawners alike.
C27_EveryCollectionCreditedOnce ==
    op.name = "game_update" =>
        /\ ~op.recollected
        /\ game.money = op.money + op.collected * Scale

\* A frame in which a particle of the emitter and a particle of a spawner
\* were collected
C27_Witness ==
    /\ op.name = "game_update"
    /\ op.by_emitter > 0
    /\ op.collected > op.by_emitter

\* C28: the player's money is never negative, whatever the clicks and
\* frames: every deduction is made only with money >= the cost at that
\* moment.
C28_MoneyNeverNegative == game.money >= 0

\* A click has taken money and what is left pays for nothing any more
C28_Witness ==
    /\ op.name = "left_click"
    /\ game.money < op.money
    /\ game.money < game.dwarf_planet_cost * Scale
    /\ game.money < game.spawn_rate_cost * Scale

\* The planet that was selected when the buttons of the click were looked at
PaidPlanet == planets[op.selected_planet]

\* C29: when the upgrade buttons of a click take money, the upgrade takes
\* effect: the gravity button raises gravity_level of the selected planet by
\* 1, the clone orbit button makes has_clone_orbit true, for Planet and
\* DwarfPlanet alike.
C29_PaidUpgradeTakesEffect ==
    (op.name = "left_click" /\ game.money < op.mid) =>
        /\ op.target = "gravity" =>
               PaidPlanet.gravity_level
                   = op.planets[op.selected_planet].gravity_level + 1
        /\ op.target = "clone_orbit" =>
               /\ PaidPlanet.has_clone_orbit
               /\ ~op.planets[op.selected_planet].has_clone_orbit

=============================================================================
